---- MODULE Spec2Model ----
(***************************************************************************)
(* A model of the MiniPython front end: the character-level Lexer          *)
(* (src/lexer.py) and the recursive-descent Parser with panic-mode         *)
(* recovery (src/parser.py).                                               *)
(*                                                                         *)
(* A source text is a sequence of one-character strings.  The Lexer's      *)
(* fields (pos, line, column, current_char) and the Parser's fields        *)
(* (tokens, current_token_index, current_token, had_error) are state       *)
(* variables.  What the Parser prints through error() is kept in           *)
(* `diagnostics`.  A Python exception is kept in `exception`.              *)
(***************************************************************************)
EXTENDS Integers, Sequences, FiniteSets, TLC

VARIABLES
  text,                 \* Lexer.text
  pos,                  \* Lexer.pos
  line,                 \* Lexer.line
  column,               \* Lexer.column
  current_char,         \* Lexer.current_char (NoChar models None)
  lex_tokens,           \* the list `tokens` local to Lexer.tokenize
  pc,                   \* where the run is: "tokenize", "init", "parse", "done", "raised"
  tokens,               \* Parser.tokens
  current_token_index,  \* Parser.current_token_index
  current_token,        \* Parser.current_token (NoToken models None)
  had_error,            \* Parser.had_error
  diagnostics,          \* what Parser.error printed, in order
  stack,                \* the calls of parse functions in progress, innermost last
  ret,                  \* what the parse function that returned last returned
  ast,                  \* what Parser.parse returned (NoNode before it returns)
  exception,            \* the exception that ended the run ("" when none)
  stalled,              \* history: some loop iteration of the parser left the cursor in place
  steps,                \* history: the steps the parse functions have taken
  faults,               \* history: the calls of Parser.error
  resync,               \* history: the last call of Parser.synchronize, from where to where
  driver,               \* the script that runs: "test_visitor" or "main"
  main_tokens,          \* the list `tokens` of main (what its own call of tokenize returned)
  indent_level,         \* PrintVisitor.indent_level
  output,               \* the lines the PrintVisitor printed, in order
  visits,               \* the calls of visit methods in progress, innermost last
  visit_exception       \* the exception that ended the traversal ("" when none)

vars == <<text, pos, line, column, current_char, lex_tokens, pc, tokens,
          current_token_index, current_token, had_error, diagnostics,
          stack, ret, ast, exception, stalled, steps, faults, resync,
          driver, main_tokens, indent_level, output, visits, visit_exception>>

\* the fields of the PrintVisitor and of its run
visitor_vars == <<indent_level, output, visits, visit_exception>>

(***************************************************************************)
(* Characters                                                              *)
(***************************************************************************)
NoChar == "None"

Digits == {"0", "1", "2", "3", "4", "5", "6", "7", "8", "9"}

Letters == {"a", "b", "c", "d", "e", "f", "g", "h", "i", "j", "k", "l", "m",
            "n", "o", "p", "q", "r", "s", "t", "u", "v", "w", "x", "y", "z"}

Whitespace == {" ", "\t", "\r", "\n"}

IsDigit(c) == c \in Digits

IsAlpha(c) == c \in Letters

IsAlnum(c) == IsAlpha(c) \/ IsDigit(c)

DigitValue(c) ==
  CASE c = "0" -> 0 [] c = "1" -> 1 [] c = "2" -> 2 [] c = "3" -> 3
    [] c = "4" -> 4 [] c = "5" -> 5 [] c = "6" -> 6 [] c = "7" -> 7
    [] c = "8" -> 8 [] c = "9" -> 9

(***************************************************************************)
(* Token values.  Every value is a record of one shape so that any two     *)
(* values can be compared: t is the Python type of the value.              *)
(***************************************************************************)
NoneValue == [t |-> "None", n |-> 0, s |-> <<>>]

IntValue(n) == [t |-> "int", n |-> n, s |-> <<>>]

\* a float is kept as its integer part and its fraction digits
FloatValue(n, frac) == [t |-> "float", n |-> n, s |-> frac]

StrValue(chars) == [t |-> "str", n |-> 0, s |-> chars]

RECURSIVE IntOf(_)
\* int(result) for a run of decimal digits
IntOf(ds) ==
  IF ds = <<>> THEN 0
  ELSE 10 * IntOf(SubSeq(ds, 1, Len(ds) - 1)) + DigitValue(ds[Len(ds)])

RECURSIVE StripZeros(_)
StripZeros(ds) ==
  IF ds # <<>> /\ ds[Len(ds)] = "0" THEN StripZeros(SubSeq(ds, 1, Len(ds) - 1))
  ELSE ds

\* float(result) for digits "." digits: trailing zeros of the fraction do not count
FloatOf(ds) ==
  LET dot == CHOOSE i \in 1..Len(ds) : ds[i] = "."
  IN FloatValue(IntOf(SubSeq(ds, 1, dot - 1)), StripZeros(SubSeq(ds, dot + 1, Len(ds))))

Token(type, value, ln, col) == [type |-> type, value |-> value, line |-> ln, column |-> col]

NoToken == Token("None", NoneValue, 0, 0)

(***************************************************************************)
(* Lexer.  L is the record of the Lexer's mutable fields.                  *)
(***************************************************************************)
LexerState == [pos |-> pos, line |-> line, column |-> column, current_char |-> current_char]

Advance(L) ==
  LET L1 == IF L.current_char = "\n" THEN [L EXCEPT !.line = @ + 1, !.column = 0] ELSE L
      p == L.pos + 1
  IN IF p < Len(text)
       THEN [L1 EXCEPT !.pos = p, !.current_char = text[p + 1], !.column = @ + 1]
       ELSE [L1 EXCEPT !.pos = p, !.current_char = NoChar]

RECURSIVE SkipWhitespace(_)
SkipWhitespace(L) ==
  IF L.current_char # NoChar /\ L.current_char \in Whitespace
    THEN SkipWhitespace(Advance(L))
    ELSE L

RECURSIVE SkipCommentLoop(_)
SkipCommentLoop(L) ==
  IF L.current_char # NoChar /\ L.current_char # "\n"
    THEN SkipCommentLoop(Advance(L))
    ELSE L

SkipComment(L) == Advance(SkipCommentLoop(L))

\* the loop `while current_char and current_char.isdigit()`: <<result, L>>
RECURSIVE DigitRun(_, _)
DigitRun(result, L) ==
  IF L.current_char # NoChar /\ IsDigit(L.current_char)
    THEN DigitRun(Append(result, L.current_char), Advance(L))
    ELSE <<result, L>>

\* a lexer result: the token, the Lexer's fields afterwards, and the fault raised ("" when none)
LexResult(tok, L, fault) == [tok |-> tok, L |-> L, fault |-> fault]

Number(L) ==
  LET start_col == L.column
      r1 == DigitRun(<<>>, L)
  IN IF r1[2].current_char = "."
       THEN LET r2 == DigitRun(Append(r1[1], "."), Advance(r1[2]))
            IN LexResult(Token("FLOAT", FloatOf(r2[1]), r2[2].line, start_col), r2[2], "")
       ELSE LexResult(Token("INT", IntValue(IntOf(r1[1])), r1[2].line, start_col), r1[2], "")

RECURSIVE StringRun(_, _)
StringRun(result, L) ==
  IF L.current_char # NoChar /\ L.current_char # "\""
    THEN StringRun(Append(result, L.current_char), Advance(L))
    ELSE <<result, L>>

String(L) ==
  LET start_col == L.column
      r == StringRun(<<>>, Advance(L))
  IN IF r[2].current_char = NoChar
       THEN LexResult(NoToken, r[2], "Unterminated string")
       ELSE LET L2 == Advance(r[2])
            IN LexResult(Token("STRING", StrValue(r[1]), L2.line, start_col), L2, "")

RECURSIVE IdentRun(_, _)
IdentRun(result, L) ==
  IF L.current_char # NoChar /\ (IsAlnum(L.current_char) \/ L.current_char = "_")
    THEN IdentRun(Append(result, L.current_char), Advance(L))
    ELSE <<result, L>>

Keyword(result) ==
  CASE result = <<"v", "a", "r">> -> "VAR"
    [] result = <<"d", "e", "f">> -> "DEF"
    [] result = <<"i", "f">> -> "IF"
    [] result = <<"e", "l", "s", "e">> -> "ELSE"
    [] result = <<"w", "h", "i", "l", "e">> -> "WHILE"
    [] result = <<"r", "e", "t", "u", "r", "n">> -> "RETURN"
    [] OTHER -> "ID"

Identifier(L) ==
  LET start_col == L.column
      r == IdentRun(<<>>, L)
  IN LexResult(Token(Keyword(r[1]), StrValue(r[1]), r[2].line, start_col), r[2], "")

SingleTokens(c) ==
  CASE c = "+" -> "PLUS" [] c = "-" -> "MINUS" [] c = "*" -> "MULTIPLY"
    [] c = "/" -> "DIVIDE" [] c = "(" -> "LPAREN" [] c = ")" -> "RPAREN"
    [] c = "{" -> "LBRACE" [] c = "}" -> "RBRACE" [] c = ";" -> "SEMI"
    [] c = "," -> "COMMA" [] OTHER -> "None"

\* TwoChar with a lone first character always a token of its own
TwoCharLenient(L, char, second, pair, lone) ==
  LET start_col == L.column
      L1 == Advance(L)
  IN IF L1.current_char = second
       THEN LET L2 == Advance(L1)
            IN LexResult(Token(pair, StrValue(<<char, second>>), L2.line, start_col), L2, "")
       ELSE LexResult(Token(IF lone = "None" THEN "NOT" ELSE lone, StrValue(<<char>>),
                            L1.line, start_col), L1, "")

\* `first` then optionally `second`: the two-character operators.  lone is the
\* token kind of `first` alone, or "None" when a lone `first` is a lex fault.
TwoChar(L, char, second, pair, lone) ==
  LET start_col == L.column
      L1 == Advance(L)
  IN IF L1.current_char = second
       THEN LET L2 == Advance(L1)
            IN LexResult(Token(pair, StrValue(<<char, second>>), L2.line, start_col), L2, "")
       ELSE IF lone = "None"
         THEN LexResult(NoToken, L1, "Unexpected character")
         ELSE LexResult(Token(lone, StrValue(<<char>>), L1.line, start_col), L1, "")

RECURSIVE GetNextToken(_)
GetNextToken(L) ==
  LET char == L.current_char
  IN IF char = NoChar THEN LexResult(Token("EOF", NoneValue, L.line, L.column), L, "")
     ELSE IF char \in Whitespace THEN GetNextToken(SkipWhitespace(L))
     ELSE IF char = "#" THEN GetNextToken(SkipComment(L))
     ELSE IF IsDigit(char) THEN Number(L)
     ELSE IF char = "\"" THEN String(L)
     ELSE IF IsAlpha(char) \/ char = "_" THEN Identifier(L)
     ELSE IF char = "=" THEN TwoChar(L, char, "=", "EQ", "ASSIGN")
     ELSE IF char = "!" THEN TwoChar(L, char, "=", "NEQ", "None")
     ELSE IF char = "<" THEN TwoChar(L, char, "=", "LTE", "LT")
     ELSE IF char = ">" THEN TwoChar(L, char, "=", "GTE", "GT")
     ELSE IF char = "&" THEN TwoChar(L, char, "&", "AND", "None")
     ELSE IF char = "|" THEN TwoChar(L, char, "|", "OR", "None")
     ELSE IF SingleTokens(char) # "None"
       THEN LET L1 == Advance(L)
            IN LexResult(Token(SingleTokens(char), StrValue(<<char>>), L1.line, L.column), L1, "")
     ELSE LexResult(NoToken, L, "Unexpected character")

(***************************************************************************)
(* AST nodes (src/ast.py).  NoNode models None.                            *)
(***************************************************************************)
NoNode == [kind |-> "None"]

IntegerLiteral(value) == [kind |-> "Literal", type_name |-> "Integer", value |-> value]

FloatLiteral(value) == [kind |-> "Literal", type_name |-> "Float", value |-> value]

StringLiteral(value) == [kind |-> "Literal", type_name |-> "String", value |-> value]

IdentifierNode(name) == [kind |-> "Identifier", name |-> name]

BinaryOp(left, op, right) == [kind |-> "BinaryOp", left |-> left, op |-> op, right |-> right]

UnaryOp(op, expr) == [kind |-> "UnaryOp", op |-> op, expr |-> expr]

CallExpression(func_name, arguments) ==
  [kind |-> "CallExpression", func_name |-> func_name, arguments |-> arguments]

Program(stmts) == [kind |-> "Program", statements |-> stmts]

VarDeclaration(var_name, value) == [kind |-> "VarDeclaration", var_name |-> var_name, value |-> value]

Assignment(var_name, value) == [kind |-> "Assignment", var_name |-> var_name, value |-> value]

Block(stmts) == [kind |-> "Block", statements |-> stmts]

IfStatement(condition, then_block, else_block) ==
  [kind |-> "IfStatement", condition |-> condition, then_block |-> then_block,
   else_block |-> else_block]

WhileStatement(condition, body) == [kind |-> "WhileStatement", condition |-> condition, body |-> body]

FunctionDeclaration(func_name, params, body) ==
  [kind |-> "FunctionDeclaration", func_name |-> func_name, params |-> params, body |-> body]

ReturnStatement(value) == [kind |-> "ReturnStatement", value |-> value]

ExpressionStatement(expression) == [kind |-> "ExpressionStatement", expression |-> expression]

(***************************************************************************)
(* Parser.  s is the record of the Parser's mutable fields; exc is the     *)
(* exception being raised ("" when none).  The parse functions call one    *)
(* another recursively: `stack` holds one frame per call in progress, the  *)
(* last being the one that runs, with its position pc (the call it waits   *)
(* for) and its local variables; `ret` holds what the last call returned.  *)
(* A step of a function runs from one call it makes to the next.          *)
(***************************************************************************)
ParserState ==
  [idx |-> current_token_index, cur |-> current_token, err |-> had_error,
   diags |-> diagnostics, exc |-> "", stalled |-> stalled, faults |-> faults,
   resync |-> resync]

\* a frame: the locals are node (the node being built), list (statements,
\* arguments or params), name (var_name or func_name), op, condition,
\* then_block; at is the cursor when the current loop iteration began
NewFrame(fn) ==
  [fn |-> fn, pc |-> "start", node |-> NoNode, list |-> <<>>, name |-> NoneValue,
   op |-> NoneValue, condition |-> NoNode, then_block |-> NoNode, at |-> 0]

\* how a step ends: the function calls `callee` and waits in frame f, or returns value
Call(s, f, callee) == [s |-> s, op |-> "call", frame |-> f, callee |-> callee, value |-> NoNode]

Return(s, value) == [s |-> s, op |-> "return", frame |-> NewFrame(""), callee |-> "", value |-> value]

\* text.split('\n'): the pieces between the newlines, line n being piece n
Lines ==
  LET breaks == {i \in 1..Len(text) : text[i] = "\n"}
      start(n) == IF n = 1 THEN 1
                  ELSE 1 + CHOOSE i \in breaks : Cardinality({j \in breaks : j <= i}) = n - 1
      end(n) == IF n = Cardinality(breaks) + 1 THEN Len(text)
                ELSE (CHOOSE i \in breaks : Cardinality({j \in breaks : j <= i}) = n) - 1
  IN [n \in 1..(Cardinality(breaks) + 1) |-> SubSeq(text, start(n), end(n))]

\* current_token_index += 1 and the reload of current_token
NextToken(s) ==
  LET i == s.idx + 1
  IN [s EXCEPT !.idx = i, !.cur = IF i < Len(tokens) THEN tokens[i + 1] ELSE NoToken]

SyncTokens == {"SEMI", "RBRACE", "IF", "WHILE", "DEF", "RETURN", "VAR"}

\* the first loop of synchronize: the cursor moves on, a token at a time, to the
\* first token of a synchronizing kind, or past the last token when there is none
SynchronizeLoop(s) ==
  LET stops == {j \in s.idx..Len(tokens) :
                  j = Len(tokens) \/ tokens[j + 1].type \in SyncTokens}
      i == CHOOSE j \in stops : \A k \in stops : j <= k
  IN IF s.cur = NoToken THEN s
     ELSE [s EXCEPT !.idx = i, !.cur = IF i < Len(tokens) THEN tokens[i + 1] ELSE NoToken]

\* synchronize with the ";" it stops at left in place
SynchronizeKeepsSemicolon(s) ==
  LET s1 == SynchronizeLoop(s)
  IN [s1 EXCEPT !.resync = [n |-> @.n + 1, from |-> s.idx, to |-> s1.idx]]

\* resync keeps the cursor at the call and at the return, and counts the calls
Synchronize(s) ==
  LET s1 == SynchronizeLoop(s)
      s2 == IF s1.cur # NoToken /\ s1.cur.type = "SEMI" THEN NextToken(s1) ELSE s1
  IN [s2 EXCEPT !.resync = [n |-> @.n + 1, from |-> s.idx, to |-> s2.idx]]

\* what error() prints: the position, the message, and the source line when there is one
Diagnostic(ln, col, message) ==
  LET lines == Lines
  IN [line |-> ln, column |-> col, message |-> message,
      context |-> IF ln - 1 < Len(lines) THEN <<lines[ln]>> ELSE <<>>]

\* error() with nothing done when the current token is the end-of-input token
ErrorIgnoresEOF(s, message) ==
  IF s.exc # "" THEN s
  ELSE IF s.cur # NoToken /\ s.cur.type = "EOF" THEN s
  ELSE LET ln == IF s.cur # NoToken THEN s.cur.line ELSE 1
           col == IF s.cur # NoToken THEN s.cur.column ELSE 1
       IN Synchronize([s EXCEPT !.err = TRUE, !.faults = @ + 1,
                                !.diags = Append(@, Diagnostic(ln, col, message))])

\* error() with the diagnostic left out
ErrorDropsDiagnostic(s, message) ==
  IF s.exc # "" THEN s
  ELSE IF s.cur # NoToken /\ s.cur.type = "EOF"
    THEN [s EXCEPT !.err = TRUE, !.faults = @ + 1]
  ELSE Synchronize([s EXCEPT !.err = TRUE, !.faults = @ + 1])

Error(s, message) ==
  IF s.exc # "" THEN s
  ELSE IF s.cur # NoToken /\ s.cur.type = "EOF"
    THEN [s EXCEPT !.err = TRUE, !.faults = @ + 1]
  ELSE LET ln == IF s.cur # NoToken THEN s.cur.line ELSE 1
           col == IF s.cur # NoToken THEN s.cur.column ELSE 1
       IN Synchronize([s EXCEPT !.err = TRUE, !.faults = @ + 1,
                                !.diags = Append(@, Diagnostic(ln, col, message))])

Eat(s, token_type) ==
  IF s.exc # "" THEN s
  ELSE IF s.cur # NoToken /\ s.cur.type = token_type THEN NextToken(s)
  ELSE Error(s, <<"Expected", token_type,
                  IF s.cur # NoToken THEN s.cur.type ELSE "EOF">>)

Peek(s, token_type) == s.cur # NoToken /\ s.cur.type = token_type

PeekAhead(s, n) ==
  LET i == s.idx + n
  IN IF i < Len(tokens) THEN tokens[i + 1] ELSE Token("EOF", NoneValue, 0, 0)

\* an attribute of current_token is read: AttributeError when it is None
Attr(s) == IF s.exc = "" /\ s.cur = NoToken THEN [s EXCEPT !.exc = "AttributeError"] ELSE s

\* the end of a loop iteration that began with the cursor at f.at: an iteration
\* that leaves the cursor in place would repeat forever, and `stalled` records it
Progress(f, s) == IF s.idx > f.at THEN s ELSE [s EXCEPT !.stalled = TRUE]

(***************************************************************************)
(* Expression parsing.  Each function is given its frame f, the parser     *)
(* fields s and, when it resumes after a call, the node r the call         *)
(* returned.                                                               *)
(***************************************************************************)
\* parse_factor with the lookahead one token too far: peek_ahead(2)
parse_factor_looks_two_ahead(f, s, r) ==
  LET token == s.cur
  IN CASE f.pc = "start" /\ token = NoToken -> Return(Attr(s), NoNode)
       [] f.pc = "start" /\ token # NoToken ->
            CASE token.type = "INT" -> Return(Eat(s, "INT"), IntegerLiteral(token.value))
              [] token.type = "FLOAT" -> Return(Eat(s, "FLOAT"), FloatLiteral(token.value))
              [] token.type = "STRING" -> Return(Eat(s, "STRING"), StringLiteral(token.value))
              [] token.type = "ID" ->
                   IF PeekAhead(s, 2).type = "LPAREN"
                     THEN Call(s, [f EXCEPT !.pc = "call"], "parse_call_expression")
                     ELSE Return(Eat(s, "ID"), IdentifierNode(token.value))
              [] token.type = "LPAREN" ->
                   Call(Eat(s, "LPAREN"), [f EXCEPT !.pc = "paren"], "parse_logical_or")
              [] token.type \in {"PLUS", "MINUS"} ->
                   Call(Eat(s, token.type), [f EXCEPT !.pc = "unary", !.op = token.value],
                        "parse_factor")
              [] OTHER ->
                   Return(Eat(Error(s, <<"Unexpected token in factor", token.type>>), token.type),
                          IntegerLiteral(IntValue(0)))
       [] f.pc = "call" -> Return(s, r)
       [] f.pc = "paren" -> Return(Eat(s, "RPAREN"), r)
       [] f.pc = "unary" -> Return(s, UnaryOp(f.op, r))

\* parse_factor with the unexpected token reported but not consumed
parse_factor_keeps_token(f, s, r) ==
  LET token == s.cur
  IN CASE f.pc = "start" /\ token = NoToken -> Return(Attr(s), NoNode)
       [] f.pc = "start" /\ token # NoToken ->
            CASE token.type = "INT" -> Return(Eat(s, "INT"), IntegerLiteral(token.value))
              [] token.type = "FLOAT" -> Return(Eat(s, "FLOAT"), FloatLiteral(token.value))
              [] token.type = "STRING" -> Return(Eat(s, "STRING"), StringLiteral(token.value))
              [] token.type = "ID" ->
                   IF PeekAhead(s, 1).type = "LPAREN"
                     THEN Call(s, [f EXCEPT !.pc = "call"], "parse_call_expression")
                     ELSE Return(Eat(s, "ID"), IdentifierNode(token.value))
              [] token.type = "LPAREN" ->
                   Call(Eat(s, "LPAREN"), [f EXCEPT !.pc = "paren"], "parse_logical_or")
              [] token.type \in {"PLUS", "MINUS"} ->
                   Call(Eat(s, token.type), [f EXCEPT !.pc = "unary", !.op = token.value],
                        "parse_factor")
              [] OTHER ->
                   Return(Error(s, <<"Unexpected token in factor", token.type>>),
                          IntegerLiteral(IntValue(0)))
       [] f.pc = "call" -> Return(s, r)
       [] f.pc = "paren" -> Return(Eat(s, "RPAREN"), r)
       [] f.pc = "unary" -> Return(s, UnaryOp(f.op, r))

\* factor -> INT | FLOAT | STRING | ID | "(" expr ")" | call_expr | ("+" | "-") factor
parse_factor(f, s, r) ==
  LET token == s.cur
  IN CASE f.pc = "start" /\ token = NoToken -> Return(Attr(s), NoNode)
       [] f.pc = "start" /\ token # NoToken ->
            CASE token.type = "INT" -> Return(Eat(s, "INT"), IntegerLiteral(token.value))
              [] token.type = "FLOAT" -> Return(Eat(s, "FLOAT"), FloatLiteral(token.value))
              [] token.type = "STRING" -> Return(Eat(s, "STRING"), StringLiteral(token.value))
              [] token.type = "ID" ->
                   IF PeekAhead(s, 1).type = "LPAREN"
                     THEN Call(s, [f EXCEPT !.pc = "call"], "parse_call_expression")
                     ELSE Return(Eat(s, "ID"), IdentifierNode(token.value))
              [] token.type = "LPAREN" ->
                   Call(Eat(s, "LPAREN"), [f EXCEPT !.pc = "paren"], "parse_logical_or")
              [] token.type \in {"PLUS", "MINUS"} ->
                   Call(Eat(s, token.type), [f EXCEPT !.pc = "unary", !.op = token.value],
                        "parse_factor")
              [] OTHER ->
                   Return(Eat(Error(s, <<"Unexpected token in factor", token.type>>), token.type),
                          IntegerLiteral(IntValue(0)))
       [] f.pc = "call" -> Return(s, r)
       [] f.pc = "paren" -> Return(Eat(s, "RPAREN"), r)
       [] f.pc = "unary" -> Return(s, UnaryOp(f.op, r))

\* call_expr -> ID "(" arg_list? ")"
parse_call_expression(f, s, r) ==
  LET loop(f1, s1) ==
        IF Peek(s1, "COMMA")
          THEN Call(Eat(s1, "COMMA"), [f1 EXCEPT !.pc = "argument", !.at = s1.idx],
                    "parse_expression")
          ELSE Return(Eat(s1, "RPAREN"), CallExpression(f1.name, f1.list))
      s2 == Eat(Eat(Attr(s), "ID"), "LPAREN")
  IN CASE f.pc = "start" ->
            IF s2.exc # "" THEN Return(s2, NoNode)
            ELSE IF ~Peek(s2, "RPAREN")
              THEN Call(s2, [f EXCEPT !.pc = "first", !.name = s.cur.value], "parse_expression")
              ELSE Return(Eat(s2, "RPAREN"), CallExpression(s.cur.value, <<>>))
       [] f.pc = "first" -> loop([f EXCEPT !.list = Append(@, r)], s)
       [] f.pc = "argument" -> loop([f EXCEPT !.list = Append(@, r)], Progress(f, s))

\* parse_term with the additive operators taken at the same level
parse_term_flat(f, s, r) ==
  LET loop(f1, s1) ==
        IF s1.cur # NoToken /\ s1.cur.type \in {"MULTIPLY", "DIVIDE", "PLUS", "MINUS"}
          THEN Call(Eat(s1, s1.cur.type),
                    [f1 EXCEPT !.pc = "right", !.op = s1.cur.value, !.at = s1.idx], "parse_factor")
          ELSE Return(s1, f1.node)
  IN CASE f.pc = "start" -> Call(s, [f EXCEPT !.pc = "left"], "parse_factor")
       [] f.pc = "left" -> loop([f EXCEPT !.node = r], s)
       [] f.pc = "right" -> loop([f EXCEPT !.node = BinaryOp(f.node, f.op, r)], Progress(f, s))

\* term -> factor (("*" | "/") factor)*
parse_term(f, s, r) ==
  LET loop(f1, s1) ==
        IF s1.cur # NoToken /\ s1.cur.type \in {"MULTIPLY", "DIVIDE"}
          THEN Call(Eat(s1, s1.cur.type),
                    [f1 EXCEPT !.pc = "right", !.op = s1.cur.value, !.at = s1.idx], "parse_factor")
          ELSE Return(s1, f1.node)
  IN CASE f.pc = "start" -> Call(s, [f EXCEPT !.pc = "left"], "parse_factor")
       [] f.pc = "left" -> loop([f EXCEPT !.node = r], s)
       [] f.pc = "right" -> loop([f EXCEPT !.node = BinaryOp(f.node, f.op, r)], Progress(f, s))

\* expr -> term (("+" | "-") term)*
parse_expression(f, s, r) ==
  LET loop(f1, s1) ==
        IF s1.cur # NoToken /\ s1.cur.type \in {"PLUS", "MINUS"}
          THEN Call(Eat(s1, s1.cur.type),
                    [f1 EXCEPT !.pc = "right", !.op = s1.cur.value, !.at = s1.idx], "parse_term")
          ELSE Return(s1, f1.node)
  IN CASE f.pc = "start" -> Call(s, [f EXCEPT !.pc = "left"], "parse_term")
       [] f.pc = "left" -> loop([f EXCEPT !.node = r], s)
       [] f.pc = "right" -> loop([f EXCEPT !.node = BinaryOp(f.node, f.op, r)], Progress(f, s))

\* parse_comparison with one comparison operator at most: comparison -> expr (op expr)?
parse_comparison_once(f, s, r) ==
  LET loop(f1, s1) ==
        IF s1.cur # NoToken /\ s1.cur.type \in {"GT", "LT", "GTE", "LTE", "EQ", "NEQ"}
          THEN Call(Eat(s1, s1.cur.type),
                    [f1 EXCEPT !.pc = "right", !.op = s1.cur.value, !.at = s1.idx], "parse_expression")
          ELSE Return(s1, f1.node)
  IN CASE f.pc = "start" -> Call(s, [f EXCEPT !.pc = "left"], "parse_expression")
       [] f.pc = "left" -> loop([f EXCEPT !.node = r], s)
       [] f.pc = "right" -> Return(Progress(f, s), BinaryOp(f.node, f.op, r))

\* comparison -> expr ((">" | "<" | ">=" | "<=" | "==" | "!=") expr)*
parse_comparison(f, s, r) ==
  LET loop(f1, s1) ==
        IF s1.cur # NoToken /\ s1.cur.type \in {"GT", "LT", "GTE", "LTE", "EQ", "NEQ"}
          THEN Call(Eat(s1, s1.cur.type),
                    [f1 EXCEPT !.pc = "right", !.op = s1.cur.value, !.at = s1.idx], "parse_expression")
          ELSE Return(s1, f1.node)
  IN CASE f.pc = "start" -> Call(s, [f EXCEPT !.pc = "left"], "parse_expression")
       [] f.pc = "left" -> loop([f EXCEPT !.node = r], s)
       [] f.pc = "right" -> loop([f EXCEPT !.node = BinaryOp(f.node, f.op, r)], Progress(f, s))

\* logical_and -> comparison ("&&" comparison)*
parse_logical_and(f, s, r) ==
  LET loop(f1, s1) ==
        IF s1.cur # NoToken /\ s1.cur.type = "AND"
          THEN Call(Eat(s1, "AND"),
                    [f1 EXCEPT !.pc = "right", !.op = s1.cur.value, !.at = s1.idx], "parse_comparison")
          ELSE Return(s1, f1.node)
  IN CASE f.pc = "start" -> Call(s, [f EXCEPT !.pc = "left"], "parse_comparison")
       [] f.pc = "left" -> loop([f EXCEPT !.node = r], s)
       [] f.pc = "right" -> loop([f EXCEPT !.node = BinaryOp(f.node, f.op, r)], Progress(f, s))

\* logical_or -> logical_and ("||" logical_and)*
parse_logical_or(f, s, r) ==
  LET loop(f1, s1) ==
        IF s1.cur # NoToken /\ s1.cur.type = "OR"
          THEN Call(Eat(s1, "OR"),
                    [f1 EXCEPT !.pc = "right", !.op = s1.cur.value, !.at = s1.idx], "parse_logical_and")
          ELSE Return(s1, f1.node)
  IN CASE f.pc = "start" -> Call(s, [f EXCEPT !.pc = "left"], "parse_logical_and")
       [] f.pc = "left" -> loop([f EXCEPT !.node = r], s)
       [] f.pc = "right" -> loop([f EXCEPT !.node = BinaryOp(f.node, f.op, r)], Progress(f, s))

(***************************************************************************)
(* Statement parsing                                                       *)
(***************************************************************************)
\* var_decl -> "var" ID "=" expr ";"
parse_var_declaration(f, s, r) ==
  LET s1 == Eat(s, "VAR")
  IN CASE f.pc = "start" ->
            Call(Eat(Eat(Attr(s1), "ID"), "ASSIGN"),
                 [f EXCEPT !.pc = "value", !.name = s1.cur.value], "parse_expression")
       [] f.pc = "value" -> Return(Eat(s, "SEMI"), VarDeclaration(f.name, r))

parse_assignment(f, s, r) ==
  LET s1 == Eat(Eat(Attr(s), "ID"), "ASSIGN")
  IN CASE f.pc = "start" ->
            IF s1.exc = "" /\ Peek(s1, "SEMI")
              THEN Return(Eat(Error(s1, <<"Missing expression in assignment">>), "SEMI"),
                          Assignment(s.cur.value, IntegerLiteral(IntValue(0))))
              ELSE Call(s1, [f EXCEPT !.pc = "value", !.name = s.cur.value], "parse_expression")
       [] f.pc = "value" -> Return(Eat(s, "SEMI"), Assignment(f.name, r))

\* parse_if_statement with the nested if of an else-if used as the else-block itself
parse_if_statement_flat(f, s, r) ==
  LET s1 == Eat(s, "ELSE")
  IN CASE f.pc = "start" ->
            Call(Eat(Eat(s, "IF"), "LPAREN"), [f EXCEPT !.pc = "condition"], "parse_logical_or")
       [] f.pc = "condition" ->
            Call(Eat(s, "RPAREN"), [f EXCEPT !.pc = "then", !.condition = r], "parse_block")
       [] f.pc = "then" /\ ~Peek(s, "ELSE") -> Return(s, IfStatement(f.condition, r, NoNode))
       [] f.pc = "then" /\ Peek(s, "ELSE") ->
            IF Peek(s1, "IF")
              THEN Call(s1, [f EXCEPT !.pc = "else_if", !.then_block = r], "parse_if_statement")
              ELSE Call(s1, [f EXCEPT !.pc = "else", !.then_block = r], "parse_block")
       [] f.pc = "else_if" -> Return(s, IfStatement(f.condition, f.then_block, r))
       [] f.pc = "else" -> Return(s, IfStatement(f.condition, f.then_block, r))

\* if_stmt -> "if" "(" expr ")" block ("else" (if_stmt | block))?
parse_if_statement(f, s, r) ==
  LET s1 == Eat(s, "ELSE")
  IN CASE f.pc = "start" ->
            Call(Eat(Eat(s, "IF"), "LPAREN"), [f EXCEPT !.pc = "condition"], "parse_logical_or")
       [] f.pc = "condition" ->
            Call(Eat(s, "RPAREN"), [f EXCEPT !.pc = "then", !.condition = r], "parse_block")
       [] f.pc = "then" /\ ~Peek(s, "ELSE") -> Return(s, IfStatement(f.condition, r, NoNode))
       [] f.pc = "then" /\ Peek(s, "ELSE") ->
            IF Peek(s1, "IF")
              THEN Call(s1, [f EXCEPT !.pc = "else_if", !.then_block = r], "parse_if_statement")
              ELSE Call(s1, [f EXCEPT !.pc = "else", !.then_block = r], "parse_block")
       [] f.pc = "else_if" -> Return(s, IfStatement(f.condition, f.then_block, Block(<<r>>)))
       [] f.pc = "else" -> Return(s, IfStatement(f.condition, f.then_block, r))

\* while_stmt -> "while" "(" expr ")" block
parse_while_statement(f, s, r) ==
  CASE f.pc = "start" ->
         Call(Eat(Eat(s, "WHILE"), "LPAREN"), [f EXCEPT !.pc = "condition"], "parse_logical_or")
    [] f.pc = "condition" ->
         Call(Eat(s, "RPAREN"), [f EXCEPT !.pc = "body", !.condition = r], "parse_block")
    [] f.pc = "body" -> Return(s, WhileStatement(f.condition, r))

RECURSIVE ParameterLoop(_, _)
\* the while loop of parse_function_declaration; gives back params and the parser fields
ParameterLoop(params, s) ==
  IF s.exc = "" /\ ~s.stalled /\ Peek(s, "COMMA")
    THEN ParameterLoop(Append(params, Eat(s, "COMMA").cur.value),
                       Progress([at |-> s.idx], Eat(Attr(Eat(s, "COMMA")), "ID")))
    ELSE [list |-> params, s |-> s]

\* func_decl -> "def" ID "(" param_list? ")" block
parse_function_declaration(f, s, r) ==
  LET s1 == Eat(s, "DEF")
      s2 == Eat(Eat(Attr(s1), "ID"), "LPAREN")
      p == IF s2.exc # "" \/ Peek(s2, "RPAREN") THEN [list |-> <<>>, s |-> s2]
           ELSE IF ~Peek(s2, "ID")
             THEN ParameterLoop(<<>>, Error(s2, <<"Expected parameter name">>))
             ELSE ParameterLoop(<<s2.cur.value>>, Eat(s2, "ID"))
  IN CASE f.pc = "start" ->
            Call(Eat(p.s, "RPAREN"),
                 [f EXCEPT !.pc = "body", !.name = s1.cur.value, !.list = p.list], "parse_block")
       [] f.pc = "body" -> Return(s, FunctionDeclaration(f.name, f.list, r))

\* return_stmt -> "return" expr ";"
parse_return_statement(f, s, r) ==
  CASE f.pc = "start" -> Call(Eat(s, "RETURN"), [f EXCEPT !.pc = "value"], "parse_expression")
    [] f.pc = "value" -> Return(Eat(s, "SEMI"), ReturnStatement(r))

\* parse_block with the token found in the place of "{" reported and consumed
parse_block_eats(f, s, r) ==
  LET loop(f1, s1) ==
        IF ~Peek(s1, "RBRACE") /\ ~Peek(s1, "EOF")
          THEN Call(s1, [f1 EXCEPT !.pc = "statement", !.at = s1.idx], "parse_statement")
          ELSE Return(Eat(s1, "RBRACE"), Block(f1.list))
      s2 == Error(s, <<"Expected '{' to start block">>)
  IN CASE f.pc = "start" /\ ~Peek(s, "LBRACE") ->
            Return(IF s2.cur # NoToken THEN Eat(s2, s2.cur.type) ELSE s2, Block(<<>>))
       [] f.pc = "start" /\ Peek(s, "LBRACE") -> loop(f, Eat(s, "LBRACE"))
       [] f.pc = "statement" -> loop([f EXCEPT !.list = Append(@, r)], Progress(f, s))

\* block -> "{" statement* "}"
parse_block(f, s, r) ==
  LET loop(f1, s1) ==
        IF ~Peek(s1, "RBRACE") /\ ~Peek(s1, "EOF")
          THEN Call(s1, [f1 EXCEPT !.pc = "statement", !.at = s1.idx], "parse_statement")
          ELSE Return(Eat(s1, "RBRACE"), Block(f1.list))
  IN CASE f.pc = "start" /\ ~Peek(s, "LBRACE") ->
            Return(Error(s, <<"Expected '{' to start block">>), Block(<<>>))
       [] f.pc = "start" /\ Peek(s, "LBRACE") -> loop(f, Eat(s, "LBRACE"))
       [] f.pc = "statement" -> loop([f EXCEPT !.list = Append(@, r)], Progress(f, s))

\* expr_stmt -> expr ";"
parse_expression_statement(f, s, r) ==
  CASE f.pc = "start" -> Call(s, [f EXCEPT !.pc = "expr"], "parse_expression")
    [] f.pc = "expr" -> Return(Eat(s, "SEMI"), ExpressionStatement(r))

\* statement -> var_decl | assignment | if_stmt | while_stmt | func_decl | return_stmt | expr_stmt
parse_statement(f, s, r) ==
  LET g == [f EXCEPT !.pc = "return"]
  IN CASE f.pc = "return" -> Return(s, r)
       [] f.pc = "start" ->
            CASE Peek(s, "VAR") -> Call(s, g, "parse_var_declaration")
              [] Peek(s, "IF") -> Call(s, g, "parse_if_statement")
              [] Peek(s, "WHILE") -> Call(s, g, "parse_while_statement")
              [] Peek(s, "DEF") -> Call(s, g, "parse_function_declaration")
              [] Peek(s, "RETURN") -> Call(s, g, "parse_return_statement")
              [] Peek(s, "ID") ->
                   IF PeekAhead(s, 1).type = "ASSIGN"
                     THEN Call(s, g, "parse_assignment")
                     ELSE Call(s, g, "parse_expression_statement")
              [] Peek(s, "ELSE") ->
                   Return(Eat(Error(s, <<"Unexpected 'else' without matching 'if'">>), "ELSE"),
                          ExpressionStatement(IntegerLiteral(IntValue(0))))
              [] OTHER -> Call(s, g, "parse_expression_statement")

\* program -> statement*
parse_program(f, s, r) ==
  LET loop(f1, s1) ==
        IF s1.cur # NoToken /\ s1.cur.type # "EOF"
          THEN Call(s1, [f1 EXCEPT !.pc = "statement", !.at = s1.idx], "parse_statement")
          ELSE Return(s1, Program(f1.list))
  IN CASE f.pc = "start" -> loop(f, s)
       [] f.pc = "statement" -> loop([f EXCEPT !.list = Append(@, r)], Progress(f, s))

\* Parser.parse: the entry point
parse(f, s, r) ==
  CASE f.pc = "start" -> Call(s, [f EXCEPT !.pc = "ast"], "parse_program")
    [] f.pc = "ast" -> Return(s, r)

(***************************************************************************)
(* PrintVisitor (src/visitor.py).  v is the record of the visitor's        *)
(* indent_level, of the lines printed and of the exception being raised.   *)
(* `visits` holds one frame per visit method in progress: the node, the    *)
(* position pc (0 at the start, else the child whose accept it waits for)  *)
(* and entry, the indent_level the method was entered with.                *)
(***************************************************************************)
VisitorState == [indent |-> indent_level, out |-> output, exc |-> ""]

VisitFrame(node, entry) == [node |-> node, pc |-> 0, entry |-> entry]

\* _print: the text at the current indentation
PrintLine(v, line_text) == [v EXCEPT !.out = Append(@, [indent |-> v.indent, text |-> line_text])]

\* indent_level += n
Indent(v, n) == [v EXCEPT !.indent = @ + n]

\* how a step of a visit method ends: it raises, it returns, or it calls
\* child.accept(self) and waits at position k (None has no accept)
VisitRaise(v, e) == [v |-> [v EXCEPT !.exc = e], op |-> "return", frame |-> VisitFrame(NoNode, 0),
                     child |-> NoNode]

VisitReturn(v) == [v |-> v, op |-> "return", frame |-> VisitFrame(NoNode, 0), child |-> NoNode]

Accept(v, f, k, child) ==
  IF child.kind = "None" THEN VisitRaise(v, "AttributeError")
  ELSE [v |-> v, op |-> "call", frame |-> [f EXCEPT !.pc = k], child |-> child]

\* for stmt in statements: stmt.accept(self), then indent_level -= 1
VisitEach(v, f, children, left) ==
  IF f.pc < Len(children) THEN Accept(v, f, f.pc + 1, children[f.pc + 1])
  ELSE VisitReturn(Indent(v, 0 - left))

visit_program(f, v) ==
  IF f.pc = 0
    THEN VisitEach(Indent(PrintLine(v, <<"Program:">>), 1), f, f.node.statements, 1)
    ELSE VisitEach(v, f, f.node.statements, 1)

\* visit_var_declaration with the indentation taken back by one level only
visit_var_declaration_short(f, v) ==
  IF f.pc = 0
    THEN Accept(Indent(PrintLine(Indent(PrintLine(v, <<"VarDeclaration:", f.node.var_name>>), 1),
                                 <<"Value:">>), 1),
                f, 1, f.node.value)
    ELSE VisitReturn(Indent(v, -1))

visit_var_declaration(f, v) ==
  IF f.pc = 0
    THEN Accept(Indent(PrintLine(Indent(PrintLine(v, <<"VarDeclaration:", f.node.var_name>>), 1),
                                 <<"Value:">>), 1),
                f, 1, f.node.value)
    ELSE VisitReturn(Indent(v, -2))

visit_assignment(f, v) ==
  IF f.pc = 0
    THEN Accept(Indent(PrintLine(Indent(PrintLine(v, <<"Assignment:", f.node.var_name>>), 1),
                                 <<"Value:">>), 1),
                f, 1, f.node.value)
    ELSE VisitReturn(Indent(v, -2))

visit_if_statement(f, v) ==
  CASE f.pc = 0 ->
         Accept(Indent(PrintLine(Indent(PrintLine(v, <<"IfStatement:">>), 1), <<"Condition:">>), 1),
                f, 1, f.node.condition)
    [] f.pc = 1 ->
         Accept(Indent(PrintLine(Indent(v, -1), <<"Then:">>), 1), f, 2, f.node.then_block)
    [] f.pc = 2 ->
         IF f.node.else_block.kind # "None"
           THEN Accept(Indent(PrintLine(Indent(v, -1), <<"Else:">>), 1), f, 3, f.node.else_block)
           ELSE VisitReturn(Indent(Indent(v, -1), -1))
    [] f.pc = 3 -> VisitReturn(Indent(Indent(v, -1), -1))

visit_while_statement(f, v) ==
  CASE f.pc = 0 ->
         Accept(Indent(PrintLine(Indent(PrintLine(v, <<"WhileStatement:">>), 1), <<"Condition:">>), 1),
                f, 1, f.node.condition)
    [] f.pc = 1 -> Accept(Indent(PrintLine(Indent(v, -1), <<"Body:">>), 1), f, 2, f.node.body)
    [] f.pc = 2 -> VisitReturn(Indent(Indent(v, -1), -1))

\* ', '.join(params) takes strings only
visit_function_declaration(f, v) ==
  LET v1 == Indent(PrintLine(v, <<"FunctionDeclaration:", f.node.func_name>>), 1)
  IN CASE f.pc = 0 ->
            IF \E i \in 1..Len(f.node.params) : f.node.params[i].t # "str"
              THEN VisitRaise(v1, "TypeError")
              ELSE Accept(Indent(PrintLine(PrintLine(v1, <<"Parameters:", f.node.params>>),
                                           <<"Body:">>), 1),
                          f, 1, f.node.body)
       [] f.pc = 1 -> VisitReturn(Indent(Indent(v, -1), -1))

visit_return_statement(f, v) ==
  IF f.pc = 0
    THEN Accept(Indent(PrintLine(v, <<"ReturnStatement:">>), 1), f, 1, f.node.value)
    ELSE VisitReturn(Indent(v, -1))

visit_expression_statement(f, v) ==
  IF f.pc = 0
    THEN Accept(Indent(PrintLine(v, <<"ExpressionStatement:">>), 1), f, 1, f.node.expression)
    ELSE VisitReturn(Indent(v, -1))

visit_block(f, v) ==
  IF f.pc = 0
    THEN VisitEach(Indent(PrintLine(v, <<"Block:">>), 1), f, f.node.statements, 1)
    ELSE VisitEach(v, f, f.node.statements, 1)

visit_binary_op(f, v) ==
  CASE f.pc = 0 ->
         Accept(Indent(PrintLine(Indent(PrintLine(v, <<"BinaryOp:", f.node.op>>), 1), <<"Left:">>), 1),
                f, 1, f.node.left)
    [] f.pc = 1 -> Accept(Indent(PrintLine(Indent(v, -1), <<"Right:">>), 1), f, 2, f.node.right)
    [] f.pc = 2 -> VisitReturn(Indent(Indent(v, -1), -1))

visit_unary_op(f, v) ==
  IF f.pc = 0
    THEN Accept(Indent(PrintLine(v, <<"UnaryOp:", f.node.op>>), 1), f, 1, f.node.expr)
    ELSE VisitReturn(Indent(v, -1))

\* the arguments are printed under "Arguments:" when there are any
visit_call_expression(f, v) ==
  LET v1 == Indent(PrintLine(v, <<"CallExpression:", f.node.func_name>>), 1)
  IN IF f.pc = 0
       THEN IF f.node.arguments # <<>>
              THEN VisitEach(Indent(PrintLine(v1, <<"Arguments:">>), 1), f, f.node.arguments, 2)
              ELSE VisitReturn(Indent(v1, -1))
       ELSE VisitEach(v, f, f.node.arguments, 2)

visit_identifier(f, v) == VisitReturn(PrintLine(v, <<"Identifier:", f.node.name>>))

visit_literal(f, v) == VisitReturn(PrintLine(v, <<f.node.type_name, "Literal:", f.node.value>>))

(***************************************************************************)
(* Source texts the runs start from                                        *)
(***************************************************************************)
MaxTextLen == 3

MaxLexemes == 2

MaxEdits == 1

\* the parse functions are followed for at most this many steps
MaxSteps == 300

\* every sequence over S of length at most n
SeqsUpTo(S, n) == UNION {[1..k -> S] : k \in 0..n}

RECURSIVE Join(_)
\* the lexemes separated by single spaces
Join(ws) ==
  IF ws = <<>> THEN <<>>
  ELSE IF Len(ws) = 1 THEN ws[1]
  ELSE LET h == Len(ws) \div 2
       IN Join(SubSeq(ws, 1, h)) \o <<" ">> \o Join(SubSeq(ws, h + 1, Len(ws)))

DeleteAt(p, i) == SubSeq(p, 1, i - 1) \o SubSeq(p, i + 1, Len(p))

RECURSIVE Edits(_, _)
\* p with at most k lexemes deleted
Edits(p, k) ==
  IF k = 0 THEN {p}
  ELSE LET E == Edits(p, k - 1)
       IN E \cup {DeleteAt(q, i) : <<q, i>> \in {qi \in E \X (1..Len(p)) : qi[2] <= Len(qi[1])}}

Prefixes(p) == {SubSeq(p, 1, k) : k \in 0..Len(p)}

kw_var == <<"v", "a", "r">>
kw_def == <<"d", "e", "f">>
kw_if == <<"i", "f">>
kw_else == <<"e", "l", "s", "e">>
kw_while == <<"w", "h", "i", "l", "e">>
kw_return == <<"r", "e", "t", "u", "r", "n">>

\* the characters of the exhaustive short texts
TextChars == {"a", "1", ".", "\"", "#", "\n", " ", "=", "!", "&", "|", "<", ";", "@"}

ShortTexts == SeqsUpTo(TextChars, MaxTextLen)

\* one lexeme of each kind the parser tells apart
LexemeAlphabet ==
  {<<"a">>, <<"1">>, <<"\"", "s", "\"">>, <<"(">>, <<")">>, <<"{">>, <<"}">>, <<";">>,
   <<",">>, <<"=">>, <<"+">>, <<"*">>, <<"<">>, <<"&", "&">>,
   kw_var, kw_def, kw_if, kw_else, kw_while, kw_return}

ShortPrograms == {Join(p) : p \in SeqsUpTo(LexemeAlphabet, MaxLexemes)}

\* sample programs, after src/test_cases.py (test1 to test4) and the examples of the specification
BasePrograms ==
  { <<kw_var, <<"x">>, <<"=">>, <<"1", "0">>, <<";">>>>,
    <<<<"x">>, <<"=">>, <<"a">>, <<"+">>, <<"2">>, <<"*">>, <<"b">>, <<";">>,
      <<"y">>, <<"=">>, <<";">>, <<"1", ".", "5", "0">>, <<"/">>, <<"(">>, <<"2">>, <<"-">>,
      <<"x">>, <<")">>, <<";">>>>,
    <<kw_if, <<"(">>, <<"a">>, <<">", "=">>, <<"b">>, <<")">>, <<"{">>, <<"f">>, <<"(">>,
      <<"1">>, <<",">>, <<"\"", "s", "\"">>, <<")">>, <<";">>, <<"}">>, kw_else, kw_if,
      <<"(">>, <<"b">>, <<")">>, <<"{">>, <<"2">>, <<";">>, <<"}">>, kw_else, <<"{">>,
      kw_return, <<"-">>, <<"a">>, <<";">>, <<"}">>>>,
    <<kw_while, <<"(">>, <<"a">>, <<"&", "&">>, <<"b">>, <<"|", "|">>, <<"c">>, <<"!", "=">>,
      <<"1">>, <<")">>, <<"{">>, <<"x">>, <<"=">>, <<"x">>, <<"+">>, <<"1">>, <<";">>, <<"}">>>>,
    <<kw_def, <<"f">>, <<"(">>, <<"a">>, <<",">>, <<"b">>, <<")">>, <<"{">>, kw_return,
      <<"a">>, <<"*">>, <<"b">>, <<";">>, <<"}">>, <<"f">>, <<"(">>, <<")">>, <<";">>>>,
    <<kw_def, <<"f">>, <<"(">>, <<"{">>, kw_return, <<"4", "2">>, <<";">>, <<"}">>>>,
    <<kw_else, <<"{">>, <<"f">>, <<"(">>, <<"a">>, <<"<">>, <<"b">>, <<")">>, <<"}">>>>
  }

EditedPrograms ==
  UNION {{Join(q) : q \in Edits(p, MaxEdits) \cup Prefixes(p)} : p \in BasePrograms}

(***************************************************************************)
(* Programs of the grammar, with the trees the specification gives them.   *)
(* A case is a record: src is the program as lexemes, text its characters. *)
(***************************************************************************)
Name(chars) == StrValue(chars)

Case(src, ast1) == [src |-> src, text |-> Join(src), ast |-> ast1]

\* primary expressions and the nodes they denote
Operands ==
  { [lex |-> <<"a">>, node |-> IdentifierNode(Name(<<"a">>))],
    [lex |-> <<"7">>, node |-> IntegerLiteral(IntValue(7))],
    [lex |-> <<"2", ".", "5">>, node |-> FloatLiteral(FloatValue(2, <<"5">>))] }

AdditiveOps == {<<"+">>, <<"-">>}

MultiplicativeOps == {<<"*">>, <<"/">>}

ComparisonOps == {<<"<">>, <<">">>, <<"<", "=">>, <<">", "=">>, <<"=", "=">>, <<"!", "=">>}

LogicalOps == {<<"&", "&">>, <<"|", "|">>}

\* x o1 y o2 z ; with one additive and one multiplicative operator
PrecedenceCases ==
  {Case(<<x.lex, o1, y.lex, o2, z.lex, <<";">>>>,
        Program(<<ExpressionStatement(
              BinaryOp(x.node, Name(o1), BinaryOp(y.node, Name(o2), z.node)))>>)) :
     x \in Operands, y \in Operands, z \in Operands,
     o1 \in AdditiveOps, o2 \in MultiplicativeOps}
  \cup
  {Case(<<x.lex, o1, y.lex, o2, z.lex, <<";">>>>,
        Program(<<ExpressionStatement(
              BinaryOp(BinaryOp(x.node, Name(o1), y.node), Name(o2), z.node))>>)) :
     x \in Operands, y \in Operands, z \in Operands,
     o1 \in MultiplicativeOps, o2 \in AdditiveOps}

\* f ( x op y ) ; with a comparison or logical operator in the argument
CallArgumentCases ==
  {Case(<<<<"f">>, <<"(">>, x.lex, op, y.lex, <<")">>, <<";">>>>,
        Program(<<ExpressionStatement(
              CallExpression(Name(<<"f">>), <<BinaryOp(x.node, Name(op), y.node)>>))>>)) :
     x \in Operands, y \in Operands, op \in ComparisonOps \cup LogicalOps}

\* expressions a statement may hold, with their nodes
ValueExprs ==
  {[src |-> <<x.lex>>, node |-> x.node] : x \in Operands}
  \cup
  { [src |-> <<<<"a">>, <<"+">>, <<"7">>>>,
     node |-> BinaryOp(IdentifierNode(Name(<<"a">>)), Name(<<"+">>), IntegerLiteral(IntValue(7)))],
    [src |-> <<<<"f">>, <<"(">>, <<"a">>, <<")">>>>,
     node |-> CallExpression(Name(<<"f">>), <<IdentifierNode(Name(<<"a">>))>>)],
    [src |-> <<<<"-">>, <<"(">>, <<"a">>, <<")">>>>,
     node |-> UnaryOp(Name(<<"-">>), IdentifierNode(Name(<<"a">>)))] }

\* the statements that end with ";"
SimpleStatements ==
  {[src |-> <<kw_var, <<"x">>, <<"=">>>> \o v.src \o <<<<";">>>>,
    node |-> VarDeclaration(Name(<<"x">>), v.node)] : v \in ValueExprs}
  \cup
  {[src |-> <<<<"x">>, <<"=">>>> \o v.src \o <<<<";">>>>,
    node |-> Assignment(Name(<<"x">>), v.node)] : v \in ValueExprs}
  \cup
  {[src |-> <<kw_return>> \o v.src \o <<<<";">>>>, node |-> ReturnStatement(v.node)] :
     v \in ValueExprs}
  \cup
  {[src |-> v.src \o <<<<";">>>>, node |-> ExpressionStatement(v.node)] : v \in ValueExprs}

Front(q) == SubSeq(q, 1, Len(q) - 1)

\* what may stand before the last statement, and after it
Preludes ==
  { [src |-> <<>>, nodes |-> <<>>],
    [src |-> <<<<"y">>, <<"=">>, <<"7">>, <<";">>>>,
     nodes |-> <<Assignment(Name(<<"y">>), IntegerLiteral(IntValue(7)))>>],
    [src |-> <<kw_while, <<"(">>, <<"a">>, <<")">>, <<"{">>, <<"}">>>>,
     nodes |-> <<WhileStatement(IdentifierNode(Name(<<"a">>)), Block(<<>>))>>] }

Trailers == {<<>>, <<"\n">>, <<" ", "#", "c">>, <<"\n", "#", "c", "\n", " ">>}

\* a program whose last statement lacks only its ";"
MissingSemicolonCases ==
  {[text |-> Join(pre.src \o Front(st.src)) \o trail,
    ast |-> Program(Append(pre.nodes, st.node))] :
     pre \in Preludes, st \in SimpleStatements, trail \in Trailers}

\* if ( x ) { 1 ; } else if ( y ) { 2 ; }, alone or with a closing else { y ; }
ElseIfCases ==
  LET one == <<ExpressionStatement(IntegerLiteral(IntValue(1)))>>
      two == <<ExpressionStatement(IntegerLiteral(IntValue(2)))>>
      head(x, y) == <<kw_if, <<"(">>, x.lex, <<")">>, <<"{">>, <<"1">>, <<";">>, <<"}">>, kw_else,
                      kw_if, <<"(">>, y.lex, <<")">>, <<"{">>, <<"2">>, <<";">>, <<"}">>>>
  IN {Case(head(x, y),
           Program(<<IfStatement(x.node, Block(one),
                       Block(<<IfStatement(y.node, Block(two), NoNode)>>))>>)) :
        x \in Operands, y \in Operands}
     \cup
     {Case(head(x, y) \o <<kw_else, <<"{">>, y.lex, <<";">>, <<"}">>>>,
           Program(<<IfStatement(x.node, Block(one),
                       Block(<<IfStatement(y.node, Block(two),
                                 Block(<<ExpressionStatement(y.node)>>))>>))>>)) :
        x \in Operands, y \in Operands}

\* additive-level expressions of the grammar, as lexemes; a call takes logical-or arguments
Expressions ==
  {v.src : v \in ValueExprs}
  \cup
  { <<<<"\"", "s", "\"">>>>,
    <<<<"a">>, <<"*">>, <<"7">>, <<"-">>, <<"2", ".", "5">>, <<"/">>, <<"a">>>>,
    <<<<"-">>, <<"+">>, <<"a">>>>,
    <<<<"(">>, <<"a">>, <<"<">>, <<"7">>, <<"|", "|">>, <<"b">>, <<")">>, <<"*">>, <<"7">>>>,
    <<<<"f">>, <<"(">>, <<")">>>>,
    <<<<"f">>, <<"(">>, <<"a">>, <<",">>, <<"g">>, <<"(">>, <<"7">>, <<")">>, <<")">>>>,
    <<<<"f">>, <<"(">>, <<"a">>, <<"<">>, <<"b">>, <<")">>>>,
    <<<<"f">>, <<"(">>, <<"a">>, <<"&", "&">>, <<"b">>, <<")">>>> }

\* logical-or expressions: the conditions of if and while
Conditions ==
  { <<<<"a">>>>,
    <<<<"a">>, <<"<">>, <<"7">>>>,
    <<<<"a">>, <<"&", "&">>, <<"b">>>>,
    <<<<"a">>, <<"=", "=">>, <<"7">>, <<"|", "|">>, <<"b">>, <<"!", "=">>, <<"a">>, <<"+">>, <<"7">>>> }

StatementsOf(E) ==
  {<<kw_var, <<"x">>, <<"=">>>> \o e \o <<<<";">>>> : e \in E}
  \cup {<<<<"x">>, <<"=">>>> \o e \o <<<<";">>>> : e \in E}
  \cup {<<kw_return>> \o e \o <<<<";">>>> : e \in E}
  \cup {e \o <<<<";">>>> : e \in E}

\* the statements a block holds in the compound statements below
Bodies ==
  { <<>>,
    <<<<"x">>, <<"=">>, <<"a">>, <<";">>>>,
    <<kw_return, <<"a">>, <<";">>, <<"f">>, <<"(">>, <<"a">>, <<")">>, <<";">>>> }

InBlock(b) == <<<<"{">>>> \o b \o <<<<"}">>>>

IfHead(c) == <<kw_if, <<"(">>>> \o c \o <<<<")">>>>

ParamLists == {<<>>, <<<<"a">>>>, <<<<"a">>, <<",">>, <<"b">>>>}

CompoundStatements ==
  {IfHead(c) \o InBlock(b) : c \in Conditions, b \in Bodies}
  \cup {IfHead(c) \o InBlock(b) \o <<kw_else>> \o InBlock(b2) :
          c \in Conditions, b \in Bodies, b2 \in Bodies}
  \cup {IfHead(c) \o InBlock(b) \o <<kw_else>> \o IfHead(c) \o InBlock(b2) :
          c \in Conditions, b \in Bodies, b2 \in Bodies}
  \cup {IfHead(c) \o InBlock(b) \o <<kw_else>> \o IfHead(c) \o InBlock(b)
          \o <<kw_else>> \o InBlock(b) : c \in Conditions, b \in Bodies}
  \cup {<<kw_while, <<"(">>>> \o c \o <<<<")">>>> \o InBlock(b) : c \in Conditions, b \in Bodies}
  \cup {<<kw_def, <<"f">>, <<"(">>>> \o ps \o <<<<")">>>> \o InBlock(b) :
          ps \in ParamLists, b \in Bodies}
  \cup {<<kw_while, <<"(">>, <<"a">>, <<")">>>> \o InBlock(IfHead(c) \o InBlock(b)) :
          c \in Conditions, b \in Bodies}

\* syntactically complete programs: zero, one or two statements
CompletePrograms ==
  LET one == StatementsOf(Expressions) \cup CompoundStatements
      first == {<<kw_var, <<"x">>, <<"=">>, <<"7">>, <<";">>>>,
                <<kw_def, <<"f">>, <<"(">>, <<"a">>, <<")">>, <<"{">>, kw_return, <<"a">>,
                  <<";">>, <<"}">>>>}
  IN {<<>>} \cup one \cup {p \o q : p \in first, q \in one}

CompleteTexts ==
  {Join(p) : p \in CompletePrograms}
  \cup {Join(p) \o <<"\n">> : p \in StatementsOf(Expressions) \cup CompoundStatements}

\* the column of lexeme i of a program written on one line
ColumnOf(src, i) == IF i = 1 THEN 1 ELSE Len(Join(SubSeq(src, 1, i - 1))) + 2

\* statements with one syntax fault; at is the lexeme the fault is met at
\* (Len(src) + 1: the token after the statement)
FirstFaulty ==
  { [src |-> <<kw_var, <<"x">>, <<"=">>, <<"7">>>>, at |-> 5],
    [src |-> <<<<"x">>, <<"=">>, <<"7">>>>, at |-> 4],
    [src |-> <<kw_var, <<"=">>, <<"7">>, <<";">>>>, at |-> 2],
    [src |-> <<<<"x">>, <<"=">>, <<";">>>>, at |-> 3],
    [src |-> <<kw_if, <<"(">>, <<"a">>, <<"{">>, <<"}">>>>, at |-> 4],
    [src |-> <<<<"f">>, <<"(">>, <<"a">>, <<";">>>>, at |-> 4],
    [src |-> <<kw_else, <<"{">>, <<"}">>>>, at |-> 1],
    [src |-> <<kw_def, <<"(">>, <<")">>, <<"{">>, <<"}">>>>, at |-> 2] }

\* faulty statements that begin at a synchronizing keyword; at is 0 when the fault
\* is met at end-of-input
LaterFaulty ==
  { [src |-> <<kw_var, <<"y">>, <<"2">>, <<";">>>>, at |-> 3],
    [src |-> <<kw_var, <<"y">>, <<"=">>, <<"2">>>>, at |-> 0],
    [src |-> <<kw_if, <<"(">>, <<"a">>, <<"{">>, <<"}">>>>, at |-> 4],
    [src |-> <<kw_while, <<"a">>, <<")">>, <<"{">>, <<"}">>>>, at |-> 2],
    [src |-> <<kw_def, <<"(">>, <<")">>, <<"{">>, <<"}">>>>, at |-> 2],
    [src |-> <<kw_return, <<";">>>>, at |-> 2],
    [src |-> <<kw_return, <<"2">>>>, at |-> 0] }

\* an earlier and a later faulty statement: the columns of the token the first
\* fault is met at, of the later statement's keyword, and of the token its
\* fault is met at (0: end-of-input)
FaultPairCases ==
  {[text |-> Join(p.src \o q.src),
    first_col |-> ColumnOf(p.src \o q.src, p.at),
    later_start |-> ColumnOf(p.src \o q.src, Len(p.src) + 1),
    later_col |-> IF q.at = 0 THEN 0 ELSE ColumnOf(p.src \o q.src, Len(p.src) + q.at)] :
     p \in FirstFaulty, q \in LaterFaulty}

\* declarations whose name or parameter tokens are missing or of another kind
RecoveryPrograms ==
  { <<kw_def, <<"f">>, <<"(">>, <<"a">>, <<",">>, <<"1">>, <<")">>, <<"{">>, <<"}">>>>,
    <<kw_def, <<"f">>, <<"(">>, <<"a">>, <<",">>, <<"2", ".", "5">>, <<")">>, <<"{">>,
      <<"x">>, <<"=">>, <<"1">>, <<";">>, <<"}">>>>,
    <<kw_def, <<"f">>, <<"(">>, <<"a">>, <<",">>, <<")">>, <<"{">>, <<"}">>>>,
    <<kw_def, <<"f">>, <<"(">>, <<"a">>, <<",">>, kw_if, <<")">>, <<"{">>, <<"}">>>>,
    <<kw_def, <<"f">>, <<"(">>, <<",">>, <<"a">>, <<")">>, <<"{">>, <<"}">>>>,
    <<kw_def, <<"1">>, <<"(">>, <<"a">>, <<")">>, <<"{">>, <<"}">>>>,
    <<kw_def, <<"(">>, <<")">>, <<"{">>, kw_return, <<"a">>, <<";">>, <<"}">>>>,
    <<kw_var, <<"=">>, <<"7">>, <<";">>>>,
    <<kw_var, <<"7">>, <<"=">>, <<"a">>, <<";">>, <<"x">>, <<"=">>, <<"a">>, <<";">>>> }

\* if, while and def with another token in the place of the "{" of a block
MissingBracePrograms ==
  { <<kw_while, <<"(">>, <<"a">>, <<")">>, <<"x">>, <<"=">>, <<"1">>, <<";">>, <<"y">>, <<"=">>,
      <<"2">>, <<";">>>>,
    <<kw_while, <<"(">>, <<"a">>, <<")">>, <<";">>, <<"y">>, <<"=">>, <<"2">>, <<";">>>>,
    <<kw_while, <<"(">>, <<"a">>, <<")">>, kw_return, <<"a">>, <<";">>>>,
    <<kw_if, <<"(">>, <<"a">>, <<")">>, <<"f">>, <<"(">>, <<")">>, <<"}">>, kw_else, <<"{">>, <<"}">>>>,
    <<kw_if, <<"(">>, <<"a">>, <<")">>, <<"{">>, <<"}">>, kw_else, <<"7">>, <<"+">>, <<"a">>>>,
    <<kw_if, <<"(">>, <<"a">>, <<")">>, <<"}">>, <<"x">>, <<";">>>>,
    <<kw_def, <<"f">>, <<"(">>, <<")">>, kw_var, <<"x">>, <<"=">>, <<"1">>, <<";">>>>,
    <<kw_def, <<"f">>, <<"(">>, <<")">>, <<"(">>, <<"a">>, <<")">>, <<"{">>, <<"}">>>>,
    <<kw_def, <<"f">>, <<"(">>, <<")">>>> }

\* y = ; alone and before another statement, with the tree of the recovery:
\* the placeholder is assigned and the statement after the ";" is kept
EmptyAssignmentCases ==
  LET y0 == Assignment(Name(<<"y">>), IntegerLiteral(IntValue(0)))
      head == <<<<"y">>, <<"=">>, <<";">>>>
  IN { Case(head, Program(<<y0>>)),
       Case(head \o <<<<"z">>, <<"=">>, <<"1">>, <<";">>>>,
            Program(<<y0, Assignment(Name(<<"z">>), IntegerLiteral(IntValue(1)))>>)),
       Case(head \o <<kw_var, <<"z">>, <<"=">>, <<"1">>, <<";">>>>,
            Program(<<y0, VarDeclaration(Name(<<"z">>), IntegerLiteral(IntValue(1)))>>)),
       Case(head \o <<<<"7">>, <<";">>>>,
            Program(<<y0, ExpressionStatement(IntegerLiteral(IntValue(7)))>>)),
       Case(head \o <<kw_while, <<"(">>, <<"a">>, <<")">>, <<"{">>, <<"}">>>>,
            Program(<<y0, WhileStatement(IdentifierNode(Name(<<"a">>)), Block(<<>>))>>)) }

\* x o1 y o2 z with both operators of one precedence level, as a statement, in
\* parentheses or as the condition of an if; the tree groups the left pair first
AssociativityCases ==
  LET a == IdentifierNode(Name(<<"a">>))
      b == IdentifierNode(Name(<<"b">>))
      c == IdentifierNode(Name(<<"c">>))
      left(x, o1, y, o2, z) == BinaryOp(BinaryOp(x, Name(o1), y), Name(o2), z)
      same == {<<o1, o2>> \in LogicalOps \X LogicalOps : o1 = o2}
  IN {Case(<<x.lex, o[1], <<"b">>, o[2], <<"c">>, <<";">>>>,
           Program(<<ExpressionStatement(left(x.node, o[1], b, o[2], c))>>)) :
        x \in Operands,
        o \in (AdditiveOps \X AdditiveOps) \cup (MultiplicativeOps \X MultiplicativeOps)}
     \cup
     {Case(<<<<"(">>, <<"a">>, o[1], <<"b">>, o[2], <<"c">>, <<")">>, <<";">>>>,
           Program(<<ExpressionStatement(left(a, o[1], b, o[2], c))>>)) :
        o \in (ComparisonOps \X ComparisonOps) \cup same}
     \cup
     {Case(<<kw_if, <<"(">>, <<"a">>, o[1], <<"b">>, o[2], <<"c">>, <<")">>, <<"{">>, <<"}">>>>,
           Program(<<IfStatement(left(a, o[1], b, o[2], c), Block(<<>>), NoNode)>>)) :
        o \in (ComparisonOps \X ComparisonOps) \cup same}

ClaimTexts ==
  {c.text : c \in PrecedenceCases \cup CallArgumentCases \cup ElseIfCases \cup AssociativityCases}
  \cup {c.text : c \in MissingSemicolonCases}
  \cup {c.text : c \in FaultPairCases \cup EmptyAssignmentCases}
  \cup {Join(p) : p \in RecoveryPrograms \cup MissingBracePrograms}
  \cup CompleteTexts

Sources == ShortTexts \cup ShortPrograms \cup EditedPrograms \cup ClaimTexts

\* the Parser tokenizes the text itself: it is built over a Lexer that has not been
\* used before ("FRESH lexer for parser"), not over the Lexer main has tokenized
FreshLexer == driver = "test_visitor"

(***************************************************************************)
(* The run: Parser(Lexer(text)).parse(), as in run_test of                 *)
(* src/test_cases.py                                                       *)
(***************************************************************************)
\* main.py tokenizes before it hands the Lexer to the Parser; it gives up on a blank text
MainSources ==
  {t \in ShortPrograms \cup {Join(p) : p \in BasePrograms} :
     \E i \in 1..Len(t) : t[i] \notin Whitespace}

Init ==
  /\ \/ driver = "test_visitor" /\ text \in Sources
     \/ driver = "main" /\ text \in MainSources
  /\ main_tokens = <<>>
  /\ resync = [n |-> 0, from |-> 0, to |-> 0]
  /\ indent_level = 0
  /\ output = <<>>
  /\ visits = <<>>
  /\ visit_exception = ""
  /\ pos = 0
  /\ line = 1
  /\ column = 1
  /\ current_char = IF text # <<>> THEN text[1] ELSE NoChar
  /\ lex_tokens = <<>>
  /\ pc = "tokenize"
  /\ tokens = <<>>
  /\ current_token_index = 0
  /\ current_token = NoToken
  /\ had_error = FALSE
  /\ diagnostics = <<>>
  /\ stack = <<>>
  /\ ret = NoNode
  /\ ast = NoNode
  /\ exception = ""
  /\ stalled = FALSE
  /\ steps = 0
  /\ faults = 0

\* where tokenize returns to: main, the first time main runs it, else Parser.__init__
Caller == IF driver = "main" /\ main_tokens = <<>> THEN "main" ELSE "init"

\* Tokenize with the loop left when the text is used up, not when EOF was appended
TokenizeBreakAtEnd ==
  /\ pc = "tokenize"
  /\ LET r == GetNextToken(LexerState)
     IN /\ pos' = r.L.pos
        /\ line' = r.L.line
        /\ column' = r.L.column
        /\ current_char' = r.L.current_char
        /\ IF r.fault # ""
             THEN /\ exception' = r.fault
                  /\ pc' = "raised"
                  /\ UNCHANGED lex_tokens
             ELSE /\ lex_tokens' = Append(lex_tokens, r.tok)
                  /\ pc' = IF r.L.current_char = NoChar THEN Caller ELSE "tokenize"
                  /\ UNCHANGED exception
  /\ UNCHANGED <<text, tokens, current_token_index, current_token, had_error,
                 diagnostics, stack, ret, ast, stalled, steps, faults, resync,
                 driver, main_tokens, visitor_vars>>

\* one iteration of the loop of Lexer.tokenize
Tokenize ==
  /\ pc = "tokenize"
  /\ LET r == GetNextToken(LexerState)
     IN /\ pos' = r.L.pos
        /\ line' = r.L.line
        /\ column' = r.L.column
        /\ current_char' = r.L.current_char
        /\ IF r.fault # ""
             THEN /\ exception' = r.fault
                  /\ pc' = "raised"
                  /\ UNCHANGED lex_tokens
             ELSE /\ lex_tokens' = Append(lex_tokens, r.tok)
                  /\ pc' = IF r.tok.type = "EOF" THEN Caller ELSE "tokenize"
                  /\ UNCHANGED exception
  /\ UNCHANGED <<text, tokens, current_token_index, current_token, had_error,
                 diagnostics, stack, ret, ast, stalled, steps, faults, resync,
                 driver, main_tokens, visitor_vars>>

\* main.py: tokens = lexer.tokenize() has returned and Parser(lexer) is constructed,
\* whose __init__ calls tokenize of the same Lexer again
MainParser ==
  /\ pc = "main"
  /\ main_tokens' = lex_tokens
  /\ lex_tokens' = <<>>
  /\ pc' = "tokenize"
  /\ UNCHANGED <<text, pos, line, column, current_char, tokens, current_token_index,
                 current_token, had_error, diagnostics, stack, ret, ast, exception,
                 stalled, steps, faults, resync, driver, visitor_vars>>

\* Parser.__init__, once tokenize has returned; the script then calls parse()
ParserInit ==
  /\ pc = "init"
  /\ tokens' = lex_tokens
  /\ current_token_index' = 0
  /\ current_token' = IF lex_tokens # <<>> THEN lex_tokens[1] ELSE NoToken
  /\ had_error' = FALSE
  /\ pc' = "parse"
  /\ stack' = <<NewFrame("parse")>>
  /\ UNCHANGED <<text, pos, line, column, current_char, lex_tokens, diagnostics,
                 ret, ast, exception, stalled, steps, faults, resync,
                 driver, main_tokens, visitor_vars>>

Top == stack[Len(stack)]

\* the functions a frame may belong to
ParseFunctions ==
  {"parse", "parse_program", "parse_statement", "parse_var_declaration", "parse_assignment",
   "parse_if_statement", "parse_while_statement", "parse_function_declaration",
   "parse_return_statement", "parse_block", "parse_expression_statement",
   "parse_logical_or", "parse_logical_and", "parse_comparison", "parse_expression",
   "parse_term", "parse_factor", "parse_call_expression"}

\* the step c of the running function `fn` takes effect: the parser's fields are
\* written back; an exception unwinds every call; a call pushes the callee's frame;
\* a return pops the frame and hands the value to the caller (parse() hands it to the run)
Step(fn, c) ==
  /\ pc = "parse"
  /\ ~stalled
  /\ steps < MaxSteps
  /\ Top.fn = fn
  /\ steps' = steps + 1
  /\ current_token_index' = c.s.idx
  /\ current_token' = c.s.cur
  /\ had_error' = c.s.err
  /\ diagnostics' = c.s.diags
  /\ exception' = c.s.exc
  /\ stalled' = c.s.stalled
  /\ faults' = c.s.faults
  /\ resync' = c.s.resync
  /\ IF c.s.exc # ""
       THEN pc' = "raised" /\ stack' = <<>> /\ ret' = NoNode /\ UNCHANGED ast
     ELSE IF c.op = "call"
       THEN /\ stack' = Append([stack EXCEPT ![Len(stack)] = c.frame], NewFrame(c.callee))
            /\ ret' = NoNode
            /\ UNCHANGED <<pc, ast>>
     ELSE /\ stack' = SubSeq(stack, 1, Len(stack) - 1)
          /\ ret' = c.value
          /\ IF Len(stack) = 1 THEN pc' = "done" /\ ast' = c.value ELSE UNCHANGED <<pc, ast>>
  /\ UNCHANGED <<text, pos, line, column, current_char, lex_tokens, tokens,
                 driver, main_tokens, visitor_vars>>

ParseFactor == Step("parse_factor", parse_factor(Top, ParserState, ret))

ParseCallExpression == Step("parse_call_expression", parse_call_expression(Top, ParserState, ret))

ParseTerm == Step("parse_term", parse_term(Top, ParserState, ret))

ParseExpression == Step("parse_expression", parse_expression(Top, ParserState, ret))

ParseComparison == Step("parse_comparison", parse_comparison(Top, ParserState, ret))

ParseLogicalAnd == Step("parse_logical_and", parse_logical_and(Top, ParserState, ret))

ParseLogicalOr == Step("parse_logical_or", parse_logical_or(Top, ParserState, ret))

ParseVarDeclaration == Step("parse_var_declaration", parse_var_declaration(Top, ParserState, ret))

ParseAssignment == Step("parse_assignment", parse_assignment(Top, ParserState, ret))

ParseIfStatement == Step("parse_if_statement", parse_if_statement(Top, ParserState, ret))

ParseWhileStatement == Step("parse_while_statement", parse_while_statement(Top, ParserState, ret))

ParseFunctionDeclaration == Step("parse_function_declaration", parse_function_declaration(Top, ParserState, ret))

ParseReturnStatement == Step("parse_return_statement", parse_return_statement(Top, ParserState, ret))

ParseBlock == Step("parse_block", parse_block(Top, ParserState, ret))

ParseExpressionStatement == Step("parse_expression_statement", parse_expression_statement(Top, ParserState, ret))

ParseStatement == Step("parse_statement", parse_statement(Top, ParserState, ret))

ParseProgram == Step("parse_program", parse_program(Top, ParserState, ret))

Parse == Step("parse", parse(Top, ParserState, ret))

\* the script prints the tree: visitor = PrintVisitor(); ast.accept(visitor).
\* test_visitor.py does so after every parse, main.py when no fault was found
AcceptVisitor ==
  /\ pc = "done"
  /\ driver = "main" => ~had_error
  /\ pc' = "visit"
  /\ indent_level' = 0
  /\ visits' = <<VisitFrame(ast, 0)>>
  /\ UNCHANGED <<text, pos, line, column, current_char, lex_tokens, tokens, current_token_index,
                 current_token, had_error, diagnostics, stack, ret, ast, exception, stalled,
                 steps, faults, resync, driver, main_tokens, output, visit_exception>>

VisitTop == visits[Len(visits)]

\* the step c of the visit method of the nodes of `kind` takes effect: an exception
\* unwinds every visit; accept pushes the child's frame, entered with the indent_level of
\* the call; a return pops the frame (the return of the root's visit ends the traversal)
VisitStep(kind, c) ==
  /\ pc = "visit"
  /\ VisitTop.node.kind = kind
  /\ indent_level' = c.v.indent
  /\ output' = c.v.out
  /\ visit_exception' = c.v.exc
  /\ IF c.v.exc # ""
       THEN pc' = "visit_raised" /\ visits' = <<>>
     ELSE IF c.op = "call"
       THEN /\ visits' = Append([visits EXCEPT ![Len(visits)] = c.frame],
                                VisitFrame(c.child, c.v.indent))
            /\ UNCHANGED pc
     ELSE /\ visits' = SubSeq(visits, 1, Len(visits) - 1)
          /\ pc' = IF Len(visits) = 1 THEN "printed" ELSE pc
  /\ UNCHANGED <<text, pos, line, column, current_char, lex_tokens, tokens, current_token_index,
                 current_token, had_error, diagnostics, stack, ret, ast, exception, stalled,
                 steps, faults, resync, driver, main_tokens>>

VisitProgram == VisitStep("Program", visit_program(VisitTop, VisitorState))

VisitVarDeclaration == VisitStep("VarDeclaration", visit_var_declaration(VisitTop, VisitorState))

VisitAssignment == VisitStep("Assignment", visit_assignment(VisitTop, VisitorState))

VisitIfStatement == VisitStep("IfStatement", visit_if_statement(VisitTop, VisitorState))

VisitWhileStatement == VisitStep("WhileStatement", visit_while_statement(VisitTop, VisitorState))

VisitFunctionDeclaration ==
  VisitStep("FunctionDeclaration", visit_function_declaration(VisitTop, VisitorState))

VisitReturnStatement == VisitStep("ReturnStatement", visit_return_statement(VisitTop, VisitorState))

VisitExpressionStatement ==
  VisitStep("ExpressionStatement", visit_expression_statement(VisitTop, VisitorState))

VisitBlock == VisitStep("Block", visit_block(VisitTop, VisitorState))

VisitBinaryOp == VisitStep("BinaryOp", visit_binary_op(VisitTop, VisitorState))

VisitUnaryOp == VisitStep("UnaryOp", visit_unary_op(VisitTop, VisitorState))

VisitCallExpression == VisitStep("CallExpression", visit_call_expression(VisitTop, VisitorState))

VisitIdentifier == VisitStep("Identifier", visit_identifier(VisitTop, VisitorState))

VisitLiteral == VisitStep("Literal", visit_literal(VisitTop, VisitorState))

Next ==
  \/ Tokenize
  \/ MainParser
  \/ ParserInit
  \/ ParseFactor
  \/ ParseCallExpression
  \/ ParseTerm
  \/ ParseExpression
  \/ ParseComparison
  \/ ParseLogicalAnd
  \/ ParseLogicalOr
  \/ ParseVarDeclaration
  \/ ParseAssignment
  \/ ParseIfStatement
  \/ ParseWhileStatement
  \/ ParseFunctionDeclaration
  \/ ParseReturnStatement
  \/ ParseBlock
  \/ ParseExpressionStatement
  \/ ParseStatement
  \/ ParseProgram
  \/ Parse
  \/ AcceptVisitor
  \/ VisitProgram
  \/ VisitVarDeclaration
  \/ VisitAssignment
  \/ VisitIfStatement
  \/ VisitWhileStatement
  \/ VisitFunctionDeclaration
  \/ VisitReturnStatement
  \/ VisitExpressionStatement
  \/ VisitBlock
  \/ VisitBinaryOp
  \/ VisitUnaryOp
  \/ VisitCallExpression
  \/ VisitIdentifier
  \/ VisitLiteral

Spec == Init /\ [][Next]_vars

(***************************************************************************)
(* C1.  Once the text has tokenized, parse() returns a Program and never   *)
(* aborts with an exception, also after synchronize has run past the       *)
(* end-of-input token.                                                     *)
(***************************************************************************)
C1_ParseNeverAborts ==
  tokens # <<>> => /\ pc # "raised"
                   /\ exception = ""
                   /\ pc = "done" => ast.kind = "Program"

\* parse() was left by an AttributeError: the current token was None when read
C1_ParseAborted ==
  /\ tokens # <<>>
  /\ pc = "raised"
  /\ exception = "AttributeError"
  /\ current_token = NoToken

(***************************************************************************)
(* C2.  tokenize terminates, and the token sequence it returns ends with   *)
(* exactly one end-of-input token: the last token is EOF, none before is.  *)
(***************************************************************************)
EndsWithOneEOF(ts) ==
  /\ ts # <<>>
  /\ ts[Len(ts)].type = "EOF"
  /\ \A i \in 1..(Len(ts) - 1) : ts[i].type # "EOF"

\* C2: tokenize stops within Len(text) + 2 iterations, each one moving on in the text,
\* and what it returns ends with its only EOF token
C2_TokenizeEndsWithOneEOF ==
  /\ [](pc = "init" => EndsWithOneEOF(lex_tokens))
  /\ [](pc \in {"parse", "done"} => EndsWithOneEOF(tokens))
  /\ [](pos <= Len(text) + 1)
  /\ [][pc = "tokenize" => pos' > pos \/ pc' # "tokenize"]_vars

\* tokenize has returned a sequence of several tokens
C2_TokenizeReturned ==
  /\ pc = "init"
  /\ Len(lex_tokens) >= 4
  /\ lex_tokens[Len(lex_tokens)].type = "EOF"

(***************************************************************************)
(* C3.  The parser terminates: every iteration of its loops advances the   *)
(* cursor (no iteration leaves it in place), and every parse that starts   *)
(* ends, by returning or by raising, within MaxSteps steps.                *)
(***************************************************************************)
C3_ParserTerminates ==
  /\ ~stalled
  /\ steps < MaxSteps
  /\ pc = "parse" => stack # <<>> /\ Top.fn \in ParseFunctions

\* a parse that met faults went through the statement loop several times and returned
C3_LoopsAdvanced ==
  /\ pc = "done"
  /\ had_error
  /\ diagnostics # <<>>
  /\ Len(ast.statements) >= 2
  /\ current_token_index >= 4

(***************************************************************************)
(* C4.  A lex fault makes tokenize raise: no token sequence is returned,   *)
(* the Parser is never constructed over it and no tree is produced.        *)
(***************************************************************************)
RecognizedChars ==
  Letters \cup Digits \cup Whitespace \cup
  {"_", "\"", "#", ".", "=", "!", "<", ">", "&", "|", "+", "-", "*", "/", "(", ")", "{", "}",
   ";", ","}

\* a maximal run of c of odd length: its last c has no partner
OddRun(t, c) ==
  \E i \in 1..Len(t) :
    /\ t[i] = c
    /\ i = 1 \/ t[i - 1] # c
    /\ \E j \in i..Len(t) :
         /\ (j - i) % 2 = 0
         /\ j = Len(t) \/ t[j + 1] # c
         /\ \A k \in i..j : t[k] = c

\* texts that hold a lex fault, told from their characters alone
LexFaultText(t) ==
  \/ /\ \A i \in 1..Len(t) : t[i] \notin {"\"", "#"}
     /\ \/ \E i \in 1..Len(t) : t[i] \notin RecognizedChars
        \/ \E i \in 1..Len(t) : t[i] = "!" /\ (i = Len(t) \/ t[i + 1] # "=")
        \/ \E i \in 1..Len(t) : t[i] = "." /\ (i = 1 \/ ~IsDigit(t[i - 1]))
        \/ OddRun(t, "&")
        \/ OddRun(t, "|")
  \/ /\ \A i \in 1..Len(t) : t[i] # "#"
     /\ Cardinality({i \in 1..Len(t) : t[i] = "\""}) % 2 = 1

LexFaultTexts == {t \in Sources : LexFaultText(t)}

\* C4: on a text with a lex fault tokenize ends by raising, the Parser never gets tokens
\* and no tree is built
C4_LexFaultPropagates ==
  text \in LexFaultTexts =>
    /\ pc \in {"tokenize", "raised"}
    /\ pos >= Len(text) => pc = "raised"
    /\ pc = "raised" => exception \in {"Unterminated string", "Unexpected character"}
    /\ tokens = <<>>
    /\ stack = <<>>
    /\ ast = NoNode

\* tokenize raised after it had already scanned some tokens
C4_RaisedAfterTokens ==
  /\ text \in LexFaultTexts
  /\ pc = "raised"
  /\ exception = "Unterminated string"
  /\ lex_tokens # <<>>
  /\ tokens = <<>>

(***************************************************************************)
(* C5.  Every syntactically complete program of the grammar parses with    *)
(* the fault flag false.                                                   *)
(***************************************************************************)
C5_CompleteProgramsParseClean ==
  text \in CompleteTexts /\ FreshLexer =>
    /\ pc # "raised"
    /\ pc = "done" => ~had_error /\ ast.kind = "Program"

\* a complete program whose call takes a comparison as its argument ends with the flag set
C5_CompleteProgramFaulted ==
  /\ text = Join(<<<<"f">>, <<"(">>, <<"a">>, <<"<">>, <<"b">>, <<")">>, <<";">>>>)
  /\ text \in CompleteTexts
  /\ pc = "done"
  /\ had_error

(***************************************************************************)
(* C6.  When the last statement lacks only its ";" and end-of-input stands *)
(* where the ";" is expected, parse sets the fault flag, does not abort,   *)
(* and the Program it returns still holds that statement.                  *)
(***************************************************************************)
C6_MissingFinalSemicolon ==
  \A c \in MissingSemicolonCases :
    text = c.text /\ FreshLexer =>
      /\ pc # "raised"
      /\ pc = "done" => had_error /\ ast = c.ast

\* such a program, with a newline after the statement, has been parsed
C6_MissingSemicolonParsed ==
  \E c \in MissingSemicolonCases :
    /\ text = c.text
    /\ text[Len(text)] = "\n"
    /\ pc = "done"
    /\ had_error
    /\ ast = c.ast
    /\ ast.statements[Len(ast.statements)].kind = "VarDeclaration"

(***************************************************************************)
(* C7.  Multiplicative operators bind tighter than additive ones:          *)
(* x + y * z is BinaryOp(x, "+", BinaryOp(y, "*", z)) and x * y + z is     *)
(* BinaryOp(BinaryOp(x, "*", y), "+", z), likewise for "-" and "/".        *)
(***************************************************************************)
C7_MultiplicativeBindsTighter ==
  \A c \in PrecedenceCases :
    text = c.text /\ FreshLexer =>
      /\ pc # "raised"
      /\ pc = "done" => ~had_error /\ ast = c.ast

\* a + 7 * 2.5 ; has been parsed, the product being the right operand of the sum
C7_PrecedenceParsed ==
  /\ text = Join(<<<<"a">>, <<"+">>, <<"7">>, <<"*">>, <<"2", ".", "5">>, <<";">>>>)
  /\ pc = "done"
  /\ ast.statements[1].expression.op = Name(<<"+">>)
  /\ ast.statements[1].expression.right.kind = "BinaryOp"
  /\ ast.statements[1].expression.right.op = Name(<<"*">>)

(***************************************************************************)
(* C8.  In every IfStatement the parser builds the then-block is a Block   *)
(* and the else-block is absent or a Block; "else" followed at once by     *)
(* "if" gives an else-block that is a Block of exactly one statement, the  *)
(* nested IfStatement.                                                     *)
(***************************************************************************)
\* the then-block has been parsed and "else" "if" comes next
AtElseIf ==
  /\ pc = "parse"
  /\ ~stalled
  /\ stack # <<>>
  /\ Top.fn = "parse_if_statement"
  /\ Top.pc = "then"
  /\ current_token.type = "ELSE"
  /\ PeekAhead(ParserState, 1).type = "IF"

\* the if-statement of an else-if has been parsed and its parent resumes
NestedIfReturned ==
  /\ pc = "parse"
  /\ ~stalled
  /\ stack # <<>>
  /\ Top.fn = "parse_if_statement"
  /\ Top.pc = "else_if"

\* C8: the shape of every IfStatement returned, the trees of the else-if programs, and
\* the two steps that build the else-block of an else-if
C8_ElseIfNests ==
  /\ [](ret.kind = "IfStatement" =>
          /\ ret.then_block.kind = "Block"
          /\ ret.else_block.kind \in {"None", "Block"})
  /\ [](\A c \in ElseIfCases : text = c.text /\ FreshLexer /\ pc = "done" => ~had_error /\ ast = c.ast)
  /\ [][AtElseIf => /\ Len(stack') = Len(stack) + 1
                    /\ stack'[Len(stack)].pc = "else_if"
                    /\ stack'[Len(stack')].fn = "parse_if_statement"]_vars
  /\ [][NestedIfReturned => /\ ret.kind = "IfStatement"
                            /\ ret'.kind = "IfStatement"
                            /\ ret'.else_block = Block(<<ret>>)]_vars

\* an else-if chain has been parsed into nested if-statements
C8_ElseIfParsed ==
  \E c \in ElseIfCases :
    /\ text = c.text
    /\ pc = "done"
    /\ ast = c.ast
    /\ ast.statements[1].else_block.statements[1].else_block.kind = "Block"

(***************************************************************************)
(* C9.  Each argument of a call is parsed at the logical-or level: an      *)
(* argument holding a comparison or logical operator is accepted without   *)
(* a fault and becomes one BinaryOp argument.                              *)
(***************************************************************************)
C9_ArgumentsAtLogicalOr ==
  \A c \in CallArgumentCases :
    text = c.text /\ FreshLexer =>
      /\ pc # "raised"
      /\ pc = "done" => ~had_error /\ ast = c.ast

\* f ( a < 7 ) ; ended with the flag set and the argument cut down to a
C9_ArgumentCut ==
  /\ text = Join(<<<<"f">>, <<"(">>, <<"a">>, <<"<">>, <<"7">>, <<")">>, <<";">>>>)
  /\ pc = "done"
  /\ had_error
  /\ diagnostics # <<>>
  /\ ast.statements[1].expression.arguments = <<IdentifierNode(Name(<<"a">>))>>

C11_EachFaultDiagnosed ==
  \A c \in FaultPairCases :
    text = c.text /\ FreshLexer /\ pc \in {"done", "raised"} =>
      LET later_col == IF c.later_col = 0 THEN tokens[Len(tokens)].column ELSE c.later_col
      IN \E i \in 1..Len(diagnostics) : \E j \in (i + 1)..Len(diagnostics) :
           /\ diagnostics[i].column = c.first_col
           /\ diagnostics[j].column = later_col

\* var = 7 ; var y 2 ; has been parsed: the later declaration's keyword was taken as
\* the first one's initializer, and no diagnostic stands at the 2 where "=" is missing
C11_LaterFaultSuppressed ==
  /\ text = Join(<<kw_var, <<"=">>, <<"7">>, <<";">>, kw_var, <<"y">>, <<"2">>, <<";">>>>)
  /\ pc = "done"
  /\ Len(ast.statements) = 1
  /\ ast.statements[1].kind = "VarDeclaration"
  /\ Len(diagnostics) = 4
  /\ \A i \in 1..Len(diagnostics) : diagnostics[i].column # 17

(***************************************************************************)
(* C12.  The print traversal never fails on a tree the parser produced,    *)
(* trees built during error recovery included: no visit method raises.     *)
(***************************************************************************)
C12_PrintNeverFails ==
  /\ pc # "visit_raised"
  /\ visit_exception = ""

\* the tree of def f ( a , 1 ) { } holds the parameter 1, an integer, and the
\* join of the parameter names raised TypeError
C12_PrintFailed ==
  /\ text = Join(<<kw_def, <<"f">>, <<"(">>, <<"a">>, <<",">>, <<"1">>, <<")">>, <<"{">>, <<"}">>>>)
  /\ pc = "visit_raised"
  /\ visit_exception = "TypeError"
  /\ ast.statements[1].kind = "FunctionDeclaration"
  /\ ast.statements[1].params = <<Name(<<"a">>), IntValue(1)>>
  /\ output = <<[indent |-> 0, text |-> <<"Program:">>],
                [indent |-> 1, text |-> <<"FunctionDeclaration:", Name(<<"f">>)>>]>>

(***************************************************************************)
(* C13.  As stated: when the token where the "{" of a block is expected is *)
(* not "{", parse_block reports a fault and returns an empty Block with    *)
(* the cursor still on that token: no token is consumed.                   *)
(***************************************************************************)
\* parse_block is about to start on a token that is not "{"
AtBlockWithoutBrace ==
  /\ pc = "parse"
  /\ stack # <<>>
  /\ Top.fn = "parse_block"
  /\ Top.pc = "start"
  /\ ~Peek(ParserState, "LBRACE")

C13_FailedBlockConsumesNothing ==
  [][AtBlockWithoutBrace =>
       /\ faults' = faults + 1
       /\ ret' = Block(<<>>)
       /\ current_token_index' = current_token_index
       /\ current_token' = current_token]_vars

(***************************************************************************)
(* C13, amended.  parse_block then reports one fault and returns an empty  *)
(* Block without consuming a token itself; the cursor moves only as the    *)
(* synchronization of that fault moves it.  It is still on the unexpected  *)
(* token when that token is end-of-input or "}", if, while, def, return or *)
(* var; any other token is discarded, with the tokens after it, up to the  *)
(* next synchronizing token, a ";" included.                               *)
(***************************************************************************)
C13_FailedBlockOnlyResynchronizes ==
  [][AtBlockWithoutBrace =>
       /\ faults' = faults + 1
       /\ ret' = Block(<<>>)
       /\ Len(stack') = Len(stack) - 1
       /\ IF current_token = NoToken \/ current_token.type \in (SyncTokens \ {"SEMI"}) \cup {"EOF"}
            THEN /\ current_token_index' = current_token_index
                 /\ current_token' = current_token
            ELSE /\ current_token_index' > current_token_index
                 /\ resync' = [n |-> resync.n + 1, from |-> current_token_index,
                               to |-> current_token_index']
                 /\ Len(diagnostics') = Len(diagnostics) + 1]_vars

\* the body of a while had x in the place of "{": the empty Block was returned with
\* the cursor four tokens on, behind the ";" of x = 1 ;
C13_FailedBlockMovedCursor ==
  /\ pc = "parse"
  /\ stack # <<>>
  /\ Top.fn = "parse_while_statement"
  /\ Top.pc = "body"
  /\ ret = Block(<<>>)
  /\ diagnostics # <<>>
  /\ diagnostics[Len(diagnostics)].message = <<"Expected '{' to start block">>
  /\ resync.from = 4
  /\ resync.to = 8
  /\ current_token_index = 8

(***************************************************************************)
(* C14.  An assignment with no expression between "=" and ";" is recovered *)
(* with a single resynchronization: the fault is reported once, that ";"   *)
(* alone is consumed, the value assigned is IntegerLiteral(0), and the     *)
(* statement after the ";" is parsed, not discarded.                       *)
(***************************************************************************)
C14_EmptyAssignmentRecovered ==
  \A c \in EmptyAssignmentCases :
    text = c.text /\ FreshLexer =>
      /\ pc # "raised"
      /\ pc = "done" => /\ had_error
                        /\ Len(diagnostics) = 1
                        /\ resync.n = 1
                        /\ ast = c.ast

\* y = ; z = 1 ; has been parsed: two diagnostics, two resynchronizations, and the
\* Program holds the assignment to y alone
C14_FollowingStatementDiscarded ==
  /\ text = Join(<<<<"y">>, <<"=">>, <<";">>, <<"z">>, <<"=">>, <<"1">>, <<";">>>>)
  /\ pc = "done"
  /\ ast = Program(<<Assignment(Name(<<"y">>), IntegerLiteral(IntValue(0)))>>)
  /\ Len(diagnostics) = 2
  /\ diagnostics[2].message = <<"Expected", "SEMI", "ID">>
  /\ resync = [n |-> 2, from |-> 3, to |-> 7]

(***************************************************************************)
(* C15.  Panic-mode synchronization started at a token that is not         *)
(* end-of-input discards tokens one at a time and stops at the first       *)
(* token, at or after the one it started at, whose kind is ";", "}", if,   *)
(* while, def, return or var; a ";" it stops at is consumed too; no token  *)
(* of the synchronizing set is skipped, and the tokens behind the stopping *)
(* point are untouched.                                                    *)
(***************************************************************************)
\* token number k (from 0) is of a synchronizing kind
IsSyncToken(k) == tokens[k + 1].type \in SyncTokens

\* C15: of the last call of synchronize, from resync.from to resync.to: every token
\* passed is of no synchronizing kind, but for a ";" passed last; the call stops on a
\* synchronizing token or right behind that ";"; the token list never changes and the
\* current token is the one the cursor is on
C15_SynchronizeStopsAtFirstSyncToken ==
  /\ [](resync.n > 0 /\ resync.from < Len(tokens) /\ tokens[resync.from + 1].type # "EOF" =>
          /\ resync.to >= resync.from
          /\ \A k \in resync.from..(resync.to - 1) :
               IsSyncToken(k) => k = resync.to - 1 /\ tokens[k + 1].type = "SEMI"
          /\ (\E k \in resync.from..(Len(tokens) - 1) : IsSyncToken(k)) =>
               /\ resync.to < Len(tokens)
               /\ \/ tokens[resync.to + 1].type \in SyncTokens \ {"SEMI"}
                  \/ resync.to > resync.from /\ tokens[resync.to].type = "SEMI")
  /\ [](pc = "parse" =>
          current_token = IF current_token_index < Len(tokens)
                            THEN tokens[current_token_index + 1] ELSE NoToken)
  /\ [][pc = "parse" => tokens' = tokens]_vars

\* a call of synchronize discarded three tokens and the ";" behind them
C15_DiscardedUpToSemicolon ==
  /\ pc = "parse"
  /\ resync.n = 1
  /\ resync.to = resync.from + 4
  /\ tokens[resync.to].type = "SEMI"
  /\ current_token_index = resync.to
  /\ current_token.type # "EOF"

AtIdentifierFactor ==
  /\ pc = "parse"
  /\ stack # <<>>
  /\ Top.fn = "parse_factor"
  /\ Top.pc = "start"
  /\ current_token.type = "ID"

\* the token right after the current one is "("
ParenFollows ==
  /\ current_token_index + 1 < Len(tokens)
  /\ tokens[current_token_index + 2].type = "LPAREN"

\* C17: with "(" next, parse_factor hands over to parse_call_expression without
\* consuming a token and returns the CallExpression it gets back; else it returns the
\* Identifier, one token on and without a fault; parse_call_expression is entered in
\* no other way
C17_CallIffParenFollows ==
  /\ [][AtIdentifierFactor =>
          IF ParenFollows
            THEN /\ Len(stack') = Len(stack) + 1
                 /\ stack'[Len(stack')].fn = "parse_call_expression"
                 /\ current_token_index' = current_token_index
            ELSE /\ Len(stack') = Len(stack) - 1
                 /\ ret' = IdentifierNode(current_token.value)
                 /\ current_token_index' = current_token_index + 1
                 /\ faults' = faults]_vars
  /\ [][pc = "parse" /\ Len(stack') = Len(stack) + 1
          /\ stack'[Len(stack')].fn = "parse_call_expression" =>
            AtIdentifierFactor /\ ParenFollows]_vars
  /\ [][pc = "parse" /\ stack # <<>> /\ Top.fn = "parse_factor" /\ Top.pc = "call" =>
          /\ ret.kind = "CallExpression"
          /\ ret' = ret]_vars
  /\ [](pc \in {"parse", "done"} /\ ret.kind = "Identifier" /\ current_token_index < Len(tokens) =>
          current_token.type # "LPAREN")

\* f ( a ) was parsed as a call whose argument a, before ")", is a bare Identifier
C17_CallAndBareIdentifier ==
  /\ pc = "parse"
  /\ stack # <<>>
  /\ Top.fn = "parse_factor"
  /\ Top.pc = "call"
  /\ ret = CallExpression(Name(<<"f">>), <<IdentifierNode(Name(<<"a">>))>>)
  /\ ~had_error

(***************************************************************************)
(* C18.  Every token tokenize returns carries the 1-based line and the     *)
(* 1-based column of the first character of its lexeme, whatever its kind  *)
(* (a string literal that holds newlines too); the end-of-input token has  *)
(* line >= 1 and column >= 1 as well.                                      *)
(***************************************************************************)
\* the line and the column of the character at offset p of the text, counted from 1
LineAt(p) == 1 + Cardinality({i \in 1..p : text[i] = "\n"})

ColumnAt(p) ==
  LET breaks == {i \in 1..p : text[i] = "\n"}
  IN IF breaks = {} THEN p + 1 ELSE p + 1 - CHOOSE i \in breaks : \A j \in breaks : j <= i

RECURSIVE LexemeStart(_)
\* the offset of the first character at or after offset p that is neither white space
\* nor part of a comment (Len(text) when there is none)
LexemeStart(p) ==
  IF p >= Len(text) THEN Len(text)
  ELSE IF text[p + 1] \in Whitespace THEN LexemeStart(p + 1)
  ELSE IF text[p + 1] = "#"
    THEN LET ends == {i \in (p + 1)..Len(text) : text[i] = "\n"}
         IN IF ends = {} THEN Len(text)
            ELSE LexemeStart(CHOOSE i \in ends : \A j \in ends : i <= j)
  ELSE p

\* C18: the token an iteration of tokenize appends stands at the line and column
\* where its lexeme starts, and no token has a line or a column below 1
C18_TokensCarryLexemeStart ==
  [][pc = "tokenize" /\ Len(lex_tokens') = Len(lex_tokens) + 1 =>
       LET tok == lex_tokens'[Len(lex_tokens')]
           start == LexemeStart(pos)
       IN /\ tok.line >= 1
          /\ tok.column >= 1
          /\ tok.type # "EOF" => tok.line = LineAt(start) /\ tok.column = ColumnAt(start)]_vars

\* tokenize returned, for a text that ends with a newline, an end-of-input token at column 0
C18_EndOfInputAtColumnZero ==
  /\ pc = "init"
  /\ text # <<>>
  /\ text[Len(text)] = "\n"
  /\ Len(lex_tokens) >= 2
  /\ lex_tokens[Len(lex_tokens)].type = "EOF"
  /\ lex_tokens[Len(lex_tokens)].column = 0

(***************************************************************************)
(* C19.  Every visit method of the print traversal returns with the indent *)
(* depth it was entered with; the depth is never negative, it is 0 after a *)
(* complete traversal, and the indentation of a printed node is its depth  *)
(* in the tree, labelled child regions counted.                            *)
(***************************************************************************)
\* the levels between a node of this kind and its children: one, and one more
\* when the children stand under a label (Value:, Condition:, Body:, Left:, ...)
RegionLevels(kind) ==
  IF kind \in {"VarDeclaration", "Assignment", "IfStatement", "WhileStatement",
               "FunctionDeclaration", "BinaryOp", "CallExpression"} THEN 2 ELSE 1

RECURSIVE TreeDepth(_)
\* the depth of the node of the i-th visit in progress, from the visits around it
TreeDepth(i) == IF i <= 1 THEN 0 ELSE TreeDepth(i - 1) + RegionLevels(visits[i - 1].node.kind)

\* C19: a visit method that returns leaves indent_level as it found it, indent_level is
\* never negative and is 0 once the traversal has returned, and a node's own line is
\* printed at the depth of the node
C19_IndentRestored ==
  /\ [](indent_level >= 0)
  /\ [](pc = "printed" => indent_level = 0)
  /\ [](pc = "visit" => \A i \in 1..Len(visits) : visits[i].entry = TreeDepth(i))
  /\ [][pc = "visit" /\ visit_exception' = "" /\ Len(visits') < Len(visits) =>
          indent_level' = VisitTop.entry]_vars
  /\ [][pc = "visit" /\ VisitTop.pc = 0 /\ visit_exception' = "" =>
          /\ Len(output') > Len(output)
          /\ output'[Len(output) + 1].indent = TreeDepth(Len(visits))]_vars

\* a traversal has returned after printing an assignment inside the body of a while
\* statement, the identifier of its sum eight levels down
C19_NestedTreePrinted ==
  /\ pc = "printed"
  /\ indent_level = 0
  /\ \E k \in 1..Len(output) :
       /\ output[k].indent = 4
       /\ output[k].text[1] = "Assignment:"
       /\ k + 4 <= Len(output)
       /\ output[k + 4].indent = 8
       /\ output[k + 4].text[1] = "Identifier:"

(***************************************************************************)
(* C20.  A second tokenize on the same Lexer, as Parser.__init__ makes it  *)
(* over a Lexer whose tokenize was called before, returns the token        *)
(* sequence of the first call, so the Parser sees the whole program.       *)
(***************************************************************************)
\* C20: under main, the tokens the Parser holds are the tokens main's own call of
\* tokenize returned
C20_SecondTokenizeSame ==
  (driver = "main" /\ pc \in {"parse", "done", "visit", "printed", "visit_raised"}) =>
    tokens = main_tokens

\* main tokenized a program of several tokens, the Parser over the same Lexer got the
\* end-of-input token alone, and parse returned an empty Program with no fault
C20_ParserSawEmptyProgram ==
  /\ driver = "main"
  /\ pc = "done"
  /\ Len(main_tokens) > 3
  /\ Len(tokens) = 1
  /\ tokens[1].type = "EOF"
  /\ ~had_error
  /\ ast.kind = "Program"
  /\ ast.statements = <<>>

(***************************************************************************)
(* C21.  In every tree parse returns, trees built after faults included,   *)
(* the name of each VarDeclaration, Assignment and FunctionDeclaration and *)
(* every parameter of a FunctionDeclaration is the text of an identifier   *)
(* token of the source: never the text of an operator, delimiter or        *)
(* keyword token, and never an absent value.                               *)
(***************************************************************************)
RECURSIVE DeclaredNames(_)
\* the names of the declarations and assignments of a tree, parameters included
DeclaredNames(node) ==
  IF node.kind \in {"Program", "Block"}
    THEN UNION {DeclaredNames(node.statements[i]) : i \in 1..Len(node.statements)}
  ELSE IF node.kind = "IfStatement"
    THEN DeclaredNames(node.then_block) \cup DeclaredNames(node.else_block)
  ELSE IF node.kind = "WhileStatement" THEN DeclaredNames(node.body)
  ELSE IF node.kind = "FunctionDeclaration"
    THEN {node.func_name} \cup {node.params[i] : i \in 1..Len(node.params)}
           \cup DeclaredNames(node.body)
  ELSE IF node.kind \in {"VarDeclaration", "Assignment"} THEN {node.var_name}
  ELSE {}

\* the values of the identifier tokens the parser was given
IdentifierTexts == {tokens[i].value : i \in {j \in 1..Len(tokens) : tokens[j].type = "ID"}}

\* C21: every name of the tree parse returned is the text of an identifier token
C21_NamesAreIdentifierTexts ==
  pc = "done" => DeclaredNames(ast) \subseteq IdentifierTexts

\* parse returned, for var = 7 ;, a VarDeclaration whose name is the text of the "="
\* token; the source holds no identifier at all
C21_OperatorAsName ==
  /\ pc = "done"
  /\ text = Join(<<kw_var, <<"=">>, <<"7">>, <<";">>>>)
  /\ IdentifierTexts = {}
  /\ Len(ast.statements) = 1
  /\ ast.statements[1].kind = "VarDeclaration"
  /\ ast.statements[1].var_name = StrValue(<<"=">>)

====
